---------------------------- MODULE Spec2Model ----------------------------
(***************************************************************************)
(* Asynchronous job dispatch and callback processing of the SherpaAI       *)
(* backend: the Callback Gateway (services/qstash_client.py), the          *)
(* Dispatcher and the Callback Handler (api/controllers, api/routers) and  *)
(* the Job Processor (services/tasks.py).                                  *)
(*                                                                         *)
(* Text is modelled as a sequence of one-character strings, time in        *)
(* tenths of a second.                                                     *)
(***************************************************************************)
EXTENDS Integers, Sequences, FiniteSets, TLC

(***************************************************************************)
(* Text helpers (Python str methods used by qstash_client.py)              *)
(***************************************************************************)
SetMin(S) == CHOOSE x \in S : \A y \in S : x <= y
SetMax(S) == CHOOSE x \in S : \A y \in S : x >= y

\* str.startswith
StartsWith(s, p) == Len(s) >= Len(p) /\ SubSeq(s, 1, Len(p)) = p

\* the characters str.strip() removes that occur in the modelled inputs
IsSpace(c) == c \in {" ", "\t", "\n", "\r"}

\* str.strip()
Strip(s) ==
    LET keep == {i \in 1..Len(s) : ~IsSpace(s[i])}
    IN  IF keep = {} THEN <<>> ELSE SubSeq(s, SetMin(keep), SetMax(keep))

\* str.rstrip("/")
RStripSlash(s) ==
    LET keep == {i \in 1..Len(s) : s[i] # "/"}
    IN  IF keep = {} THEN <<>> ELSE SubSeq(s, 1, SetMax(keep))

UpperToLower ==
    [c \in {"A","B","C","D","E","F","G","H","I","J","K","L","M",
            "N","O","P","Q","R","S","T","U","V","W","X","Y","Z"} |->
        CASE c = "A" -> "a" [] c = "B" -> "b" [] c = "C" -> "c" [] c = "D" -> "d"
          [] c = "E" -> "e" [] c = "F" -> "f" [] c = "G" -> "g" [] c = "H" -> "h"
          [] c = "I" -> "i" [] c = "J" -> "j" [] c = "K" -> "k" [] c = "L" -> "l"
          [] c = "M" -> "m" [] c = "N" -> "n" [] c = "O" -> "o" [] c = "P" -> "p"
          [] c = "Q" -> "q" [] c = "R" -> "r" [] c = "S" -> "s" [] c = "T" -> "t"
          [] c = "U" -> "u" [] c = "V" -> "v" [] c = "W" -> "w" [] c = "X" -> "x"
          [] c = "Y" -> "y" [] c = "Z" -> "z"]

\* str.lower()
Lower(s) ==
    [i \in 1..Len(s) |-> IF s[i] \in DOMAIN UpperToLower THEN UpperToLower[s[i]] ELSE s[i]]

\* index of the first character of s that is in the set cs, 0 when there is none
FindAny(s, cs) ==
    IF \E i \in 1..Len(s) : s[i] \in cs
    THEN CHOOSE i \in 1..Len(s) : s[i] \in cs /\ \A j \in 1..(i - 1) : s[j] \notin cs
    ELSE 0

\* index of the last character of s that is in the set cs, 0 when there is none
RFindAny(s, cs) ==
    IF \E i \in 1..Len(s) : s[i] \in cs
    THEN CHOOSE i \in 1..Len(s) : s[i] \in cs /\ \A j \in (i + 1)..Len(s) : s[j] \notin cs
    ELSE 0

Digits == {"0", "1", "2", "3", "4", "5", "6", "7", "8", "9"}

DigitVal(c) ==
    CASE c = "0" -> 0 [] c = "1" -> 1 [] c = "2" -> 2 [] c = "3" -> 3 [] c = "4" -> 4
      [] c = "5" -> 5 [] c = "6" -> 6 [] c = "7" -> 7 [] c = "8" -> 8 [] c = "9" -> 9

(***************************************************************************)
(* Literals of the source                                                  *)
(***************************************************************************)
HttpScheme  == <<"h","t","t","p",":","/","/">>
HttpsScheme == <<"h","t","t","p","s",":","/","/">>
Localhost   == <<"l","o","c","a","l","h","o","s","t">>
Ip6Localhost == <<"i","p","6","-","l","o","c","a","l","h","o","s","t">>
Loopback4   == <<"1","2","7",".","0",".","0",".","1">>
AnyAddr4    == <<"0",".","0",".","0",".","0">>
TranscriptCallbackPath ==
    <<"/","a","p","i","/","v","1","/","t","r","a","n","s","c","r","i","p","t","s",
      "/","c","a","l","l","b","a","c","k">>
IcebreakerCallbackPath ==
    <<"/","a","p","i","/","v","1","/","i","c","e","b","r","e","a","k","e","r","s",
      "/","c","a","l","l","b","a","c","k">>

(***************************************************************************)
(* Callback Gateway: URLs                                                  *)
(***************************************************************************)
\* A result of a call that may raise: err = "" when it returned val.
Ok(v)    == [err |-> "", val |-> v]
Raise(e) == [err |-> e, val |-> <<>>]

\* lines 200-202: one layer of matching quotes is removed
Unquote(v) ==
    IF Len(v) >= 2 /\ v[1] \in {"\"", "'"} /\ v[Len(v)] = v[1]
    THEN SubSeq(v, 2, Len(v) - 1)
    ELSE v

\* Faulty variant of LocalPrefix: only localhost is taken to be local
LocalhostOnly(lower) == StartsWith(lower, Localhost)

\* lines 205: the hosts that get http://
LocalPrefix(lower) ==
    StartsWith(lower, Localhost) \/ StartsWith(lower, Loopback4) \/ StartsWith(lower, AnyAddr4)

\* lines 203-208: the scheme is added when missing
WithScheme(v) ==
    IF StartsWith(v, HttpScheme) \/ StartsWith(v, HttpsScheme) THEN v
    ELSE IF LocalPrefix(Lower(v)) THEN HttpScheme \o v
    ELSE HttpsScheme \o v

\* normalize_base_url.  os.getenv gives None for an unset variable; the code
\* only tests `not value`, so None is modelled as the empty text.
normalize_base_url(value) ==
    IF value = <<>> \/ Strip(value) = <<>>
    THEN Raise("HTTPException500")
    ELSE Ok(WithScheme(Unquote(RStripSlash(Strip(value)))))

\* Faulty variant of JoinPath: the path is appended as it is
JoinAsIs(base, path) ==
    IF base.err # "" THEN base ELSE Ok(base.val \o path)

\* lines 215-217
JoinPath(base, path) ==
    IF base.err # "" THEN base
    ELSE Ok(base.val \o (IF StartsWith(path, <<"/">>) THEN path ELSE <<"/">> \o path))

\* build_callback_url, with os.getenv("BACKEND_URL") passed in
build_callback_url(backend_url, path) == JoinPath(normalize_base_url(backend_url), path)

Letters ==
    {"a","b","c","d","e","f","g","h","i","j","k","l","m","n","o","p","q","r","s","t",
     "u","v","w","x","y","z"}

\* urlsplit: url[:colon] is a scheme when it starts with a letter and holds only
\* letters, digits, "+", "-" and "."
HasScheme(url, colon) ==
    /\ colon > 1
    /\ Lower(<<url[1]>>)[1] \in Letters
    /\ \A i \in 2..(colon - 1) :
          Lower(<<url[i]>>)[1] \in Letters \cup Digits \cup {"+", "-", "."}

\* urlsplit: what follows the scheme and its ":"
AfterScheme(url, colon) ==
    IF HasScheme(url, colon) THEN SubSeq(url, colon + 1, Len(url)) ELSE url

\* the text before the first character of cs
Before(s, cs) ==
    IF FindAny(s, cs) = 0 THEN s ELSE SubSeq(s, 1, FindAny(s, cs) - 1)

\* urlsplit: the netloc of what follows the scheme: the text between "//" and
\* the next "/", "?" or "#"; empty without "//"
NetlocOf(rest) ==
    IF StartsWith(rest, <<"/", "/">>)
    THEN Before(SubSeq(rest, 3, Len(rest)), {"/", "?", "#"})
    ELSE <<>>

\* urllib.parse.urlsplit(url).netloc
UrlNetloc(url) == NetlocOf(AfterScheme(url, FindAny(url, {":"})))

\* urlsplit raises ValueError("Invalid IPv6 URL") on unbalanced brackets
UnbalancedBrackets(n) == (FindAny(n, {"["}) # 0) # (FindAny(n, {"]"}) # 0)
UrlParseFails(url) == UnbalancedBrackets(UrlNetloc(url))

\* _hostinfo: the bracketed part, or the text before the ":" of the port
HostOfHostinfo(hostinfo) ==
    IF FindAny(hostinfo, {"["}) # 0
    THEN Before(SubSeq(hostinfo, FindAny(hostinfo, {"["}) + 1, Len(hostinfo)), {"]"})
    ELSE Before(hostinfo, {":"})

\* SplitResult.hostname: the host of what follows the last "@", lower-cased;
\* the empty text stands for None
HostOfNetloc(n) == Lower(HostOfHostinfo(SubSeq(n, RFindAny(n, {"@"}) + 1, Len(n))))
UrlHostname(url) == HostOfNetloc(UrlNetloc(url))

\* The "."-separated fields of a text
RECURSIVE SplitDots(_)
SplitDots(s) ==
    LET dot == FindAny(s, {"."})
    IN  IF dot = 0 THEN <<s>>
        ELSE <<SubSeq(s, 1, dot - 1)>> \o SplitDots(SubSeq(s, dot + 1, Len(s)))

\* the decimal value of a text of 1 to 3 digits
Decimal(f) ==
    IF Len(f) = 1 THEN DigitVal(f[1])
    ELSE IF Len(f) = 2 THEN 10 * DigitVal(f[1]) + DigitVal(f[2])
    ELSE 100 * DigitVal(f[1]) + 10 * DigitVal(f[2]) + DigitVal(f[3])

\* ipaddress.IPv4Address._parse_octet: 1 to 3 decimal digits, no leading
\* zero on a longer field, at most 255; -1 stands for ValueError
ParseOctet(f) ==
    IF Len(f) \notin 1..3 \/ \E i \in 1..Len(f) : f[i] \notin Digits THEN -1
    ELSE IF Len(f) > 1 /\ f[1] = "0" THEN -1
    ELSE IF Decimal(f) > 255 THEN -1
    ELSE Decimal(f)

\* the octets of four fields, <<>> when one of them is no octet
Octets(fs) ==
    IF Len(fs) # 4 \/ \E i \in 1..Len(fs) : ParseOctet(fs[i]) = -1 THEN <<>>
    ELSE [i \in 1..4 |-> ParseOctet(fs[i])]

\* ipaddress.ip_address(host) for dotted-quad text: the four octets, or <<>>
\* for ValueError
ParseIPv4(host) == Octets(SplitDots(host))

\* IPv4Address.is_loopback: 127.0.0.0/8
IPv4IsLoopback(ip) == ip[1] = 127

\* IPv4Address.is_private: the networks of ipaddress._IPv4Constants._private_networks
IPv4IsPrivate(ip) ==
    \/ ip[1] = 0
    \/ ip[1] = 10
    \/ ip[1] = 127
    \/ ip[1] = 169 /\ ip[2] = 254
    \/ ip[1] = 172 /\ ip[2] \in 16..31
    \/ ip[1] = 192 /\ ip[2] = 0 /\ ip[3] = 0 /\ ip[4] \in 0..7
    \/ ip[1] = 192 /\ ip[2] = 0 /\ ip[3] = 0 /\ ip[4] \in 170..171
    \/ ip[1] = 192 /\ ip[2] = 0 /\ ip[3] = 2
    \/ ip[1] = 192 /\ ip[2] = 168
    \/ ip[1] = 198 /\ ip[2] \in 18..19
    \/ ip[1] = 198 /\ ip[2] = 51 /\ ip[3] = 100
    \/ ip[1] = 203 /\ ip[2] = 0 /\ ip[3] = 113
    \/ ip[1] >= 240

\* The IPv6 loopback address, the one IPv6 text of the modelled inputs
Ip6Loopback == <<":", ":", "1">>

\* lines 234-239: the host as an IP address
IsLocalIP(ip) ==
    IF ip = <<>> THEN FALSE ELSE IPv4IsLoopback(ip) \/ IPv4IsPrivate(ip)

\* lines 228-239
IsLocalHost(host) ==
    IF host = <<>> THEN TRUE
    ELSE IF host \in {Localhost, Ip6Localhost} THEN TRUE
    ELSE IF host = Ip6Loopback THEN TRUE
    ELSE IsLocalIP(ParseIPv4(host))

\* Faulty variant of is_loopback_or_private: a URL that cannot be parsed is
\* taken to be public
ParseFailureIsPublic(url) ==
    IF UrlParseFails(url) THEN FALSE ELSE IsLocalHost(UrlHostname(url))

\* is_loopback_or_private
is_loopback_or_private(url) ==
    IF UrlParseFails(url) THEN TRUE ELSE IsLocalHost(UrlHostname(url))

(***************************************************************************)
(* Python dicts: a dict is the set of its <<key, value>> pairs              *)
(***************************************************************************)
DictHas(d, k) == \E kv \in d : kv[1] = k

\* dict.get(k, default)
DictGet(d, k, default) ==
    IF DictHas(d, k) THEN (CHOOSE kv \in d : kv[1] = k)[2] ELSE default

\* d[k] = v
DictSet(d, k, v) == {kv \in d : kv[1] # k} \cup {<<k, v>>}

\* None, where an identifier is expected
NoId == <<>>

(***************************************************************************)
(* Callback Gateway: publishing                                            *)
(*                                                                         *)
(* env is the process environment (os.getenv) and the installed SDK:       *)
(*   BACKEND_URL, QSTASH_VERIFY        text ("" when unset)                *)
(*   QSTASH_TOKEN, QSTASH_CURRENT_SIGNING_KEY, QSTASH_SIGNING_KEY,         *)
(*   QSTASH_NEXT_SIGNING_KEY           a string ("" when unset)            *)
(*   client    what _QStash(token) offers: "none" (SDK not installed),     *)
(*             "message.publish_json", "publish_json" or "publish"         *)
(*   receiver  what _Receiver offers: "none" (not installed), "kw"         *)
(*             (current/next keys, keyword verify with url), "kw_str" (the *)
(*             same, body as str only), "legacy" (one signing_key,         *)
(*             positional verify(signature, body)), "legacy_str", or       *)
(*             "broken" (no constructor form is accepted)                  *)
(*                                                                         *)
(* A reply of the queue to one publish call:                               *)
(*   accepted  the queue took the message                                  *)
(*   shape     "dict" (a JSON object / a dict), "object" (an SDK response  *)
(*             object), "text" (a body that is not JSON), or "none": no    *)
(*             reply arrived within the call's timeout (line 81)           *)
(*   keys      the spellings under which the reply carries the reference   *)
(*   id        the message reference                                       *)
(***************************************************************************)
\* get_qstash_client
get_qstash_client(env) ==
    IF env.QSTASH_TOKEN = "" THEN Raise("HTTPException500") ELSE Ok(env.client)

\* the dict of a reply
ReplyDict(reply) == {<<k, reply.id>> : k \in reply.keys}

\* Faulty variant of NormalizeMessageId: the reply's keys are left as they are
KeepKeys(d) == d

\* lines 90-91 and 97-98: "Normalize key"
NormalizeMessageId(d) ==
    IF ~DictHas(d, "messageId") /\ DictHas(d, "message_id")
    THEN DictSet(d, "messageId", DictGet(d, "message_id", NoId))
    ELSE d

\* qstash_publish_json(client, url, body), given the queue's reply to the call
qstash_publish_json(env, client, reply) ==
    IF client \in {"message.publish_json", "publish_json", "publish"}
    THEN \* the SDK raises when no reply arrives or the queue rejects the publish
         IF reply.shape = "none" THEN Raise("TimeoutException")
         ELSE IF ~reply.accepted THEN Raise("QStashError")
         ELSE IF reply.shape = "dict" THEN Ok(NormalizeMessageId(ReplyDict(reply)))
         ELSE \* getattr(resp, "messageId", None) or getattr(resp, "message_id", None)
              Ok({<<"messageId",
                    IF reply.shape = "object" /\ reply.keys # {} THEN reply.id ELSE NoId>>,
                  <<"raw", <<"raw">> >>})
    ELSE \* direct HTTP publish
         IF env.QSTASH_TOKEN = "" THEN Raise("HTTPException500")
         ELSE IF reply.shape = "none" THEN Raise("TimeoutException")
         ELSE IF ~reply.accepted THEN Raise("HTTPException500")
         ELSE IF reply.shape = "dict" THEN Ok(NormalizeMessageId(ReplyDict(reply)))
         ELSE Ok({<<"raw", <<"raw">> >>})

(***************************************************************************)
(* Callback Gateway: verification                                          *)
(*                                                                         *)
(* A request to a callback endpoint:                                       *)
(*   sigName   the name under which the signature header was sent, ""      *)
(*             when the request carries none                               *)
(*   sig       the header's value: [key, body, url] says which key signed  *)
(*             which body for which URL; key = "" is an empty value        *)
(*   body      the raw body, [fmt, val]                                    *)
(*   scheme, host, path, query   the request's own URL (request.url)       *)
(*   xf_proto, xf_host, xf_port  the forwarded headers, <<>> when absent   *)
(***************************************************************************)
\* Starlette's Headers compare names case-insensitively
LowerName(n) ==
    IF n \in {"upstash-signature", "Upstash-Signature", "UPSTASH-SIGNATURE"}
    THEN "upstash-signature" ELSE n

EmptySig == [key |-> "", body |-> <<>>, url |-> <<>>]

\* Faulty variant of HeaderGet: a request without the header is treated as
\* one whose header holds a signature nobody made
AnySig(req, name) ==
    IF req.sigName # "" THEN req.sig ELSE [key |-> "nobody", body |-> <<>>, url |-> <<>>]

\* request.headers.get(name) of the signature header; EmptySig stands for None
HeaderGet(req, name) ==
    IF req.sigName # "" /\ LowerName(req.sigName) = LowerName(name) THEN req.sig ELSE EmptySig

\* str(request.url)
RequestUrl(req) ==
    req.scheme \o <<":", "/", "/">> \o req.host \o req.path
        \o (IF req.query # <<>> THEN <<"?">> \o req.query ELSE <<>>)

\* lines 157-173: the URL the signature is verified against
ReconstructUrl(req) ==
    LET xf_host == IF req.xf_host # <<>> THEN req.xf_host ELSE req.host
        path_qs == req.path \o (IF req.query # <<>> THEN <<"?">> \o req.query ELSE <<>>)
    IN  IF req.xf_proto # <<>> /\ xf_host # <<>>
        THEN LET host == IF req.xf_port # <<>> /\ req.xf_port \notin {<<"8","0">>, <<"4","4","3">>}
                            /\ FindAny(xf_host, {":"}) = 0
                         THEN xf_host \o <<":">> \o req.xf_port
                         ELSE xf_host
             IN  req.xf_proto \o <<":", "/", "/">> \o host \o path_qs
        ELSE RequestUrl(req)

NoUrl == <<"no url">>

\* receiver.verify of the SDK: "" when it returns, else the exception raised.
\* form is "kw" for verify(signature=, body=, url=) and "pos" for
\* verify(signature, body); asStr says whether the body is passed as str.
ReceiverVerify(variant, keys, form, signature, body, asStr, url) ==
    IF form = "kw" /\ variant \in {"legacy", "legacy_str"} THEN "TypeError"
    ELSE IF form = "pos" /\ variant \in {"kw", "kw_str"} THEN "TypeError"
    ELSE IF ~asStr /\ variant \in {"kw_str", "legacy_str"} THEN "AttributeError"
    ELSE IF signature.key \in keys /\ signature.body = body
            /\ (url = NoUrl \/ signature.url = url)
         THEN ""
         ELSE "SignatureError"

\* Faulty variant of VerifyDisabled: only the exact text "false" switches
\* verification off
ExactFalseOnly(env) == env.QSTASH_VERIFY = <<"f", "a", "l", "s", "e">>

\* lines 116-117: the explicit opt-out
VerifyDisabled(env) ==
    LET v == IF env.QSTASH_VERIFY = <<>> THEN <<"t","r","u","e">> ELSE env.QSTASH_VERIFY
    IN  Lower(v) \in {<<"0">>, <<"f","a","l","s","e">>, <<"n","o">>}

\* line 123
CurrentKey(env) ==
    IF env.QSTASH_CURRENT_SIGNING_KEY # "" THEN env.QSTASH_CURRENT_SIGNING_KEY
    ELSE env.QSTASH_SIGNING_KEY

\* lines 129-141: the keys of the receiver that gets built
ReceiverKeys(env) ==
    IF env.receiver \in {"kw", "kw_str"}
    THEN {CurrentKey(env), env.QSTASH_NEXT_SIGNING_KEY} \ {""}
    ELSE {CurrentKey(env)}

\* lines 175-187: the calls of receiver.verify
VerifyCalls(env, signature, body, url) ==
    LET V(form, asStr, u) ==
            ReceiverVerify(env.receiver, ReceiverKeys(env), form, signature, body, asStr, u)
        r1 == V("kw", FALSE, url)
        r2 == V("kw", TRUE, url)
        r3 == V("pos", FALSE, NoUrl)
        r4 == V("pos", TRUE, NoUrl)
    IN  IF r1 = "" THEN ""
        ELSE IF r2 # "TypeError" THEN r2
        ELSE IF r3 = "" THEN "" ELSE r4

\* verify_qstash_request: "" when it returns, else the exception it raises
verify_qstash_request(env, req) ==
    IF VerifyDisabled(env) THEN ""
    ELSE IF env.receiver = "none" THEN ""
    ELSE IF CurrentKey(env) = "" THEN ""
    ELSE IF env.receiver = "broken" THEN ""
    ELSE LET a == HeaderGet(req, "upstash-signature")
             signature == IF a # EmptySig THEN a ELSE HeaderGet(req, "Upstash-Signature")
         IN  IF signature = EmptySig THEN "HTTPException401"
             ELSE VerifyCalls(env, signature, req.body, ReconstructUrl(req))

\* verify_qstash_request, by the URL its signature check covered: the url
\* argument of the receiver.verify call that returned (NoUrl when that call
\* was the positional one, which has no url argument), "skipped" when the
\* function returns before it looks at the signature, else the exception
VerifiedAgainst(env, req) ==
    LET signature == HeaderGet(req, "upstash-signature")
        url == ReconstructUrl(req)
        V(form, asStr, u) ==
            ReceiverVerify(env.receiver, ReceiverKeys(env), form, signature, req.body, asStr, u)
        r1 == V("kw", FALSE, url)
        r2 == V("kw", TRUE, url)
        r3 == V("pos", FALSE, NoUrl)
        r4 == V("pos", TRUE, NoUrl)
    IN  IF VerifyDisabled(env) \/ env.receiver \in {"none", "broken"} \/ CurrentKey(env) = ""
        THEN Raise("skipped")
        ELSE IF signature = EmptySig THEN Raise("HTTPException401")
        ELSE IF r1 = "" THEN Ok(url)
        ELSE IF r2 # "TypeError" THEN (IF r2 = "" THEN Ok(url) ELSE Raise(r2))
        ELSE IF r3 = "" \/ r4 = "" THEN Ok(NoUrl)
        ELSE Raise(r4)

(***************************************************************************)
(* The server                                                              *)
(***************************************************************************)
\* Bounds of the model
MaxQueue == 1
MaxTasks == 2
MaxFaults == 1

VARIABLES
    env,        \* the process environment and the installed SDK
    resp,       \* the response the latest step sent, with what the request was;
                \* NoResp when the step was a step of a background task
    queue,      \* the external queue: the messages it accepted, in order
    tasks,      \* the background units of work, in the order they were scheduled
    running,    \* _running_tasks of transcript_controller.py
    log,        \* the Interaction Log: the rows inserted
    faults,     \* number of failed external calls so far
    store       \* the Job Store: the statuses written under each job id, in order

vars == <<env, resp, queue, tasks, running, log, faults, store>>

\* Texts of the modelled deployments
LocalBackend  == Localhost \o <<":", "8", "0", "0", "0">>
PublicHost    == <<"a", "p", "i", ".", "e", "x", ".", "c", "o", "m">>
InternalHost  == <<"a", "p", "p", ":", "8", "0", "0", "0">>
FalseText     == <<"F", "a", "l", "s", "e">>

\* The key the queue signs its callbacks with
QueueKey == "k1"

\* Submitted payloads
TranscriptPayloads ==
    {{<<"name", "alice">>, <<"company", "acme">>, <<"attendees", "ann">>, <<"date", "d1">>,
      <<"transcript", "t1">>}}
IcebreakerPayloads ==
    {{<<"linkedinBio", "bio1">>, <<"deckText", "deck1">>}}

\* The values of BACKEND_URL in the modelled deployments (<<>>: unset)
BackendUrls ==
    {<<>>, LocalBackend, PublicHost, HttpScheme \o PublicHost,
     Localhost \o <<".", "e", "x", ".", "c", "o", "m">>}
CallbackPaths == {TranscriptCallbackPath, IcebreakerCallbackPath}

\* build_callback_url, tabulated over the modelled deployments
CallbackUrls ==
    [b \in BackendUrls |-> [path \in CallbackPaths |-> build_callback_url(b, path)]]

\* The callback URLs for which is_loopback_or_private holds
LocalCallbackUrls ==
    {u \in {CallbackUrls[b][path].val : b \in BackendUrls, path \in CallbackPaths} :
        is_loopback_or_private(u)}

\* A JSON value: an object (a dict), or an array
JsonObject(d) == [fmt |-> "object", val |-> d]
JsonArray     == [fmt |-> "array", val |-> {}]
\* A raw body that is not JSON
NotJson       == [fmt |-> "invalid", val |-> {}]

\* json.loads(raw)
json_loads(raw) == IF raw.fmt = "invalid" THEN Raise("JSONDecodeError") ELSE Ok(raw)

\* The replies the queue can give to a publish call that would get reference id
Replies(client, id) ==
    {[accepted |-> FALSE, shape |-> "text", keys |-> {}, id |-> NoId]}
    \cup {[accepted |-> TRUE, shape |-> sh, keys |-> ks, id |-> id] :
            sh \in (IF client = "none" THEN {"dict"} ELSE {"dict", "object"}),
            ks \in {{"messageId"}, {"message_id"}}}
    \cup {[accepted |-> TRUE, shape |-> "text", keys |-> {}, id |-> id]}
    \* the queue took the message, but its reply did not arrive in time
    \cup {[accepted |-> TRUE, shape |-> "none", keys |-> {}, id |-> id]}

\* No publish call was made
NoReply == [accepted |-> FALSE, shape |-> "none", keys |-> {}, id |-> NoId]

\* The latest response with what it answers: the endpoint and, of the request,
\* its body and signature header (sigName, signer); the handler's outcome
\* (status, job_id, state, mode; verr, fmt; scheduled, publishes, why); and
\* the queue's reply to the publish call
NoResp ==
    [endpoint |-> "none", kind |-> "", body |-> JsonObject({}), sigName |-> "",
     signer |-> "", status |-> 0, job_id |-> NoId, state |-> "", mode |-> "",
     verr |-> "", fmt |-> "", scheduled |-> 0, publishes |-> 0, reply |-> NoReply,
     accepted |-> FALSE, why |-> ""]

(***************************************************************************)
(* Dispatcher                                                              *)
(***************************************************************************)
\* f"local-{uuid.uuid4().hex}": the hex is fresh for every call
LocalJobId(hex) == <<"local-", hex>>

\* Faulty variant of enqueue_job: the local branch does not return, so the job
\* is run locally and published as well
FallThrough(e, cb, reply, hex) ==
    IF cb.err # ""
    THEN [status |-> 500, job_id |-> NoId, state |-> "", mode |-> "",
          scheduled |-> 0, publishes |-> 0, accepted |-> FALSE, why |-> "url"]
    ELSE [status |-> 200, job_id |-> LocalJobId(hex), state |-> "queued",
          mode |-> IF cb.val \in LocalCallbackUrls THEN "local" ELSE "qstash",
          scheduled |-> 1, publishes |-> 1, accepted |-> reply.accepted, why |-> ""]

\* Faulty variant of enqueue_job: a publish the queue rejected is made again,
\* and the queue takes the second
PublishRetried(e, cb, reply, hex) ==
    LET failure(why) ==
            [status |-> 500, job_id |-> NoId, state |-> "", mode |-> "",
             scheduled |-> 0, publishes |-> 0, accepted |-> FALSE, why |-> why]
        client == get_qstash_client(e)
        pub == qstash_publish_json(e, client.val, reply)
    IN  IF cb.err # "" THEN failure("url")
        ELSE IF cb.val \in LocalCallbackUrls
        THEN [status |-> 200, job_id |-> LocalJobId(hex), state |-> "queued",
              mode |-> "local", scheduled |-> 1, publishes |-> 0, accepted |-> FALSE,
              why |-> ""]
        ELSE IF client.err # "" THEN failure("token")
        ELSE [status |-> 200,
              job_id |-> IF pub.err # "" THEN NoId ELSE DictGet(pub.val, "messageId", NoId),
              state |-> "queued", mode |-> "qstash", scheduled |-> 0,
              publishes |-> IF pub.err # "" THEN 2 ELSE 1, accepted |-> TRUE, why |-> ""]

\* enqueue_transcript_job_controller / enqueue_icebreaker_job: what the handler
\* does, given cb = build_callback_url(<its callback path>) and the queue's
\* reply to a publish call.  scheduled = 1 when it schedules a Job Processor
\* run, publishes = number of publish calls, accepted = the queue took the
\* message, why = the step that failed.
enqueue_job(e, cb, reply, hex) ==
    LET failure(why) ==
            [status |-> 500, job_id |-> NoId, state |-> "", mode |-> "",
             scheduled |-> 0, publishes |-> 0, accepted |-> FALSE, why |-> why]
    IN  IF cb.err # "" THEN failure("url")
        ELSE IF cb.val \in LocalCallbackUrls
        THEN [status |-> 200, job_id |-> LocalJobId(hex), state |-> "queued",
              mode |-> "local", scheduled |-> 1, publishes |-> 0, accepted |-> FALSE,
              why |-> ""]
        ELSE LET client == get_qstash_client(e)
             IN  IF client.err # "" THEN failure("token")
                 ELSE LET pub == qstash_publish_json(e, client.val, reply)
                      IN  IF pub.err # ""
                          THEN [failure("publish") EXCEPT !.publishes = 1,
                                                          !.accepted = reply.accepted]
                          ELSE [status |-> 200,
                                job_id |-> DictGet(pub.val, "messageId", NoId),
                                state |-> "queued", mode |-> "qstash", scheduled |-> 0,
                                publishes |-> 1, accepted |-> reply.accepted, why |-> ""]

\* Faulty variant of NewTask: the handler awaits the run, which has made its
\* first completion call when the handler answers
RunInline(kind, wrapper, payload, job_id, msg) ==
    [kind |-> kind, wrapper |-> wrapper, payload |-> payload, job_id |-> job_id,
     msg |-> msg, pc |-> "inserting", attempt |-> 0, log_attempt |-> 0, delay |-> 10,
     log_delay |-> 5, calls |-> 1, inserts |-> 0, slept |-> <<>>, content |-> <<0, 1>>,
     outcome |-> "", err |-> NoId, hist |-> <<"call_ok">>, outs |-> <<"ok">>]

\* A unit of work that has just been scheduled.  hist and outs record the
\* external calls the run has made, in order: hist whether each was a completion
\* call or an insert and whether it failed, outs how exactly it ended
NewTask(kind, wrapper, payload, job_id, msg) ==
    [kind |-> kind, wrapper |-> wrapper, payload |-> payload, job_id |-> job_id,
     msg |-> msg, pc |-> "scheduled", attempt |-> 0,
     log_attempt |-> 0, delay |-> 0, log_delay |-> 0, calls |-> 0, inserts |-> 0,
     slept |-> <<>>, content |-> NoId, outcome |-> "", err |-> NoId, hist |-> <<>>,
     outs |-> <<>>]

\* The icebreaker's completion call is made on the event loop (tasks.py line
\* 208): while it is in flight ("calling"), or will never return ("hung"),
\* nothing else runs.
LoopBlocked ==
    \E t \in 1..Len(tasks) :
        tasks[t].kind = "icebreaker" /\ tasks[t].pc \in {"calling", "hung"}

\* The replies that make a difference to the handler: one when it makes no
\* publish call
RepliesFor(e, cb) ==
    IF cb.err # "" \/ cb.val \in LocalCallbackUrls \/ e.QSTASH_TOKEN = ""
    THEN {NoReply}
    ELSE Replies(e.client, <<"msg", Len(queue) + 1>>)

Submit(kind, path, wrapper, payload) ==
    /\ ~LoopBlocked
    /\ LET cb == CallbackUrls[env.BACKEND_URL][path]
       IN  \E reply \in RepliesFor(env, cb) :
            LET out == enqueue_job(env, cb, reply, Len(tasks) + 1)
            IN  /\ out.scheduled = 1 => Len(tasks) < MaxTasks
                /\ out.accepted => Len(queue) < MaxQueue
                /\ resp' = [NoResp EXCEPT !.endpoint = "submit",
                                !.kind = kind, !.body = JsonObject(payload),
                                !.reply = reply, !.status = out.status,
                                !.job_id = out.job_id, !.state = out.state,
                                !.mode = out.mode, !.scheduled = out.scheduled,
                                !.publishes = out.publishes, !.accepted = out.accepted,
                                !.why = out.why]
                /\ tasks' = IF out.scheduled = 1
                            THEN Append(tasks,
                                        NewTask(kind, wrapper, JsonObject(payload), NoId, 0))
                            ELSE tasks
                \* only the transcript dispatcher keeps its task in _running_tasks
                /\ running' = IF out.scheduled = 1 /\ kind = "transcript"
                              THEN running \cup {Len(tasks) + 1} ELSE running
                /\ queue' = IF out.accepted
                            THEN Append(queue, [kind |-> kind, body |-> payload,
                                                url |-> cb.val, id |-> reply.id])
                            ELSE queue
                /\ UNCHANGED <<store, env, log, faults>>

\* enqueue_transcript_job_controller is called with a transcript job
SubmitTranscript ==
    \E data \in TranscriptPayloads :
        Submit("transcript", TranscriptCallbackPath, "cleanup", data)

\* POST /api/v1/icebreakers/jobs (enqueue_icebreaker_job)
SubmitIcebreaker ==
    \E data \in IcebreakerPayloads :
        Submit("icebreaker", IcebreakerCallbackPath, "background", data)

(***************************************************************************)
(* Callback Handler                                                        *)
(***************************************************************************)
\* What a callback handler does with a request.  scheduled = 1 when it
\* schedules a Job Processor run on `payload`; verr is what
\* verify_qstash_request raised ("" when it returned), fmt the body's format.
Rejected(status, verr, fmt) ==
    [status |-> status, state |-> "", job_id |-> NoId, scheduled |-> 0,
     payload |-> JsonObject({}), verr |-> verr, fmt |-> fmt]

\* Faulty variant of process_transcript_callback_controller: a body that does
\* not parse is replaced by an empty object and processed (the lenient variant)
TranscriptCallbackLenient(e, req) ==
    LET verr == verify_qstash_request(e, req)
        parsed == json_loads(req.body)
        body == IF parsed.err # "" THEN JsonObject({}) ELSE parsed.val
    IN  IF verr = "HTTPException401" THEN Rejected(401, verr, req.body.fmt)
        ELSE IF verr # "" THEN Rejected(500, verr, req.body.fmt)
        ELSE IF body.fmt # "object" THEN Rejected(500, verr, req.body.fmt)
        ELSE [status |-> 200, state |-> "accepted",
              job_id |-> <<DictGet(body.val, "name", "unknown")>>,
              scheduled |-> 1, payload |-> body, verr |-> verr, fmt |-> req.body.fmt]

\* process_transcript_callback_controller
process_transcript_callback_controller(e, req) ==
    LET verr == verify_qstash_request(e, req)
        body == json_loads(req.body)
    IN  IF verr = "HTTPException401" THEN Rejected(401, verr, req.body.fmt)
        \* any other exception reaches `except Exception` (line 210)
        ELSE IF verr # "" THEN Rejected(500, verr, req.body.fmt)
        ELSE IF body.err # "" THEN Rejected(400, verr, req.body.fmt)
        \* body.get on a value that is no dict raises AttributeError (line 194)
        ELSE IF body.val.fmt # "object" THEN Rejected(500, verr, req.body.fmt)
        ELSE [status |-> 200, state |-> "accepted",
              job_id |-> <<DictGet(body.val.val, "name", "unknown")>>,
              scheduled |-> 1, payload |-> body.val, verr |-> verr, fmt |-> req.body.fmt]

\* Faulty variant of process_icebreaker_callback: the run is scheduled before
\* the request is verified
IcebreakerScheduleFirst(e, req) ==
    LET verr == verify_qstash_request(e, req)
    IN  [status |-> IF verr = "" THEN 200 ELSE 401,
         state |-> IF verr = "" THEN "processing" ELSE "", job_id |-> NoId,
         scheduled |-> 1,
         payload |-> IF req.body.fmt = "invalid" THEN JsonObject({}) ELSE req.body,
         verr |-> verr, fmt |-> req.body.fmt]

\* Faulty variant of process_icebreaker_callback: a body that does not parse
\* is rejected with 400 (the strict variant)
IcebreakerCallbackStrict(e, req) ==
    LET verr == verify_qstash_request(e, req)
        body == json_loads(req.body)
    IN  IF verr = "HTTPException401" THEN Rejected(401, verr, req.body.fmt)
        ELSE IF verr # "" THEN Rejected(500, verr, req.body.fmt)
        ELSE IF body.err # "" THEN Rejected(400, verr, req.body.fmt)
        ELSE [status |-> 200, state |-> "processing", job_id |-> NoId,
              scheduled |-> 1, payload |-> body.val, verr |-> verr, fmt |-> req.body.fmt]

\* process_icebreaker_callback
process_icebreaker_callback(e, req) ==
    LET verr == verify_qstash_request(e, req)
        parsed == json_loads(req.body)
        body == IF parsed.err # "" THEN JsonObject({}) ELSE parsed.val
    IN  IF verr = "HTTPException401" THEN Rejected(401, verr, req.body.fmt)
        ELSE IF verr # "" THEN Rejected(500, verr, req.body.fmt)
        ELSE [status |-> 200, state |-> "processing", job_id |-> NoId,
              scheduled |-> 1, payload |-> body, verr |-> verr, fmt |-> req.body.fmt]

\* The parts of a URL scheme://netloc/path
UrlScheme(url) == SubSeq(url, 1, FindAny(url, {":"}) - 1)
UrlPath(url) ==
    LET from == Len(UrlScheme(url)) + 3 + Len(UrlNetloc(url)) + 1
    IN  SubSeq(url, from, Len(url))

\* The parts of the callback URLs, tabulated
UrlParts ==
    [u \in {CallbackUrls[b][path].val : b \in BackendUrls, path \in CallbackPaths} |->
        [scheme |-> UrlScheme(u), netloc |-> UrlNetloc(u), path |-> UrlPath(u)]]

\* The request by which the queue delivers message m: signed for the published
\* destination URL, and received directly or through a reverse proxy
DeliveryRequest(m, via) ==
    LET raw == JsonObject(m.body)
    IN  [sigName |-> "Upstash-Signature",
         sig |-> [key |-> QueueKey, body |-> raw, url |-> m.url],
         body |-> raw,
         scheme |-> IF via = "proxy" THEN <<"h", "t", "t", "p">> ELSE UrlParts[m.url].scheme,
         host |-> IF via = "proxy" THEN InternalHost ELSE UrlParts[m.url].netloc,
         path |-> UrlParts[m.url].path, query |-> <<>>,
         xf_proto |-> IF via = "proxy" THEN UrlParts[m.url].scheme ELSE <<>>,
         xf_host |-> IF via = "proxy" THEN UrlParts[m.url].netloc ELSE <<>>,
         xf_port |-> IF via = "proxy" THEN <<"4", "4", "3">> ELSE <<>>]

\* A request that does not come from the queue: without a signature header,
\* or with one signed with a key that is not the queue's
OtherRequest(path, raw, forged) ==
    LET base == [sigName |-> "", sig |-> EmptySig, body |-> raw,
                 scheme |-> <<"h", "t", "t", "p", "s">>, host |-> PublicHost,
                 path |-> path, query |-> <<>>,
                 xf_proto |-> <<>>, xf_host |-> <<>>, xf_port |-> <<>>]
    IN  IF forged
        THEN [base EXCEPT !.sigName = "upstash-signature",
                          !.sig = [key |-> "attacker", body |-> raw, url |-> RequestUrl(base)]]
        ELSE base

\* The bodies such requests carry: a job of its own, for the person of the
\* submitted transcript
OtherObject == JsonObject({<<"name", "alice">>})

\* Faulty variant of Callback: a delivery of a message for which a run has
\* already been scheduled is answered without scheduling another (the
\* deduplicating variant)
CallbackDeduplicated(kind, req, msg) ==
    /\ ~LoopBlocked
    /\ LET out == IF kind = "transcript"
                  THEN process_transcript_callback_controller(env, req)
                  ELSE process_icebreaker_callback(env, req)
           dup == msg # 0 /\ \E t \in 1..Len(tasks) : tasks[t].msg = msg
           sched == IF dup THEN 0 ELSE out.scheduled
       IN  /\ sched = 1 => Len(tasks) < MaxTasks
           /\ resp' = [NoResp EXCEPT !.endpoint = "callback",
                           !.kind = kind, !.body = req.body, !.status = out.status,
                           !.job_id = out.job_id,
                           !.state = IF dup /\ out.scheduled = 1 THEN "duplicate" ELSE out.state,
                           !.sigName = req.sigName,
                           !.signer = req.sig.key, !.verr = out.verr, !.fmt = out.fmt,
                           !.scheduled = sched]
           /\ tasks' = IF sched = 1
                       THEN Append(tasks,
                                NewTask(kind,
                                        IF kind = "transcript" THEN "tracking" ELSE "background",
                                        out.payload, out.job_id, msg))
                       ELSE tasks
           /\ running' = IF sched = 1 /\ kind = "transcript"
                         THEN running \cup {Len(tasks) + 1} ELSE running
           /\ UNCHANGED <<store, env, queue, log, faults>>

\* The callback endpoint of a job kind answers a request
Callback(kind, req, msg) ==
    /\ ~LoopBlocked
    /\ LET out == IF kind = "transcript"
                  THEN process_transcript_callback_controller(env, req)
                  ELSE process_icebreaker_callback(env, req)
       IN  /\ out.scheduled = 1 => Len(tasks) < MaxTasks
           /\ resp' = [NoResp EXCEPT !.endpoint = "callback",
                           !.kind = kind, !.body = req.body, !.status = out.status,
                           !.job_id = out.job_id, !.state = out.state, !.sigName = req.sigName,
                           !.signer = req.sig.key, !.verr = out.verr, !.fmt = out.fmt,
                           !.scheduled = out.scheduled]
           /\ tasks' = IF out.scheduled = 1
                       THEN Append(tasks,
                                NewTask(kind,
                                        IF kind = "transcript" THEN "tracking" ELSE "background",
                                        out.payload, out.job_id, msg))
                       ELSE tasks
           /\ running' = IF out.scheduled = 1 /\ kind = "transcript"
                         THEN running \cup {Len(tasks) + 1} ELSE running
           /\ UNCHANGED <<store, env, queue, log, faults>>

\* The queue delivers one of its messages (at least once: any number of times)
Deliver ==
    \E m \in 1..Len(queue), via \in {"direct", "proxy"} :
        Callback(queue[m].kind, DeliveryRequest(queue[m], via), m)

\* Some other client calls a callback endpoint
OtherCallback ==
    \/ \E raw \in {OtherObject, JsonArray, NotJson} :
          Callback("transcript", OtherRequest(TranscriptCallbackPath, raw, FALSE), 0)
    \/ Callback("transcript", OtherRequest(TranscriptCallbackPath, OtherObject, TRUE), 0)
    \/ \E raw \in {OtherObject, JsonArray, NotJson} :
          Callback("icebreaker", OtherRequest(IcebreakerCallbackPath, raw, FALSE), 0)
    \/ Callback("icebreaker", OtherRequest(IcebreakerCallbackPath, OtherObject, TRUE), 0)

(***************************************************************************)
(* Job Processor (services/tasks.py) and its wrappers                      *)
(***************************************************************************)
\* Program constants, in tenths of a second
InitialSleep == 10
Delay0 == 10
LogDelay0 == 5
MaxAttempts == 3
MaxLogAttempts == 3

\* Routes of the Interaction Log rows
TranscriptRoute == "/api/v1/analyze-transcript"
FailedRoute     == "/api/v1/analyze-transcript-failed"
IcebreakerRoute == "/api/v1/generate-icebreaker"

\* The input_payload process_transcript logs (lines 51-62, 111-117)
TranscriptInput(d) ==
    {<<k, DictGet(d, k, "")>> : k \in {"name", "company", "date", "transcript"}}
    \cup {<<"attendees", DictGet(d, "attendees", "None")>>}

\* The input_payload process_icebreaker logs (lines 180-181, 241)
IcebreakerInput(d) ==
    {<<k, DictGet(d, k, "")>> : k \in {"linkedinBio", "deckText"}}

\* Faulty variant of Raised: the exception escapes _process_with_cleanup
RaisedEscapesCleanup(T, e) ==
    IF T.wrapper = "tracking" THEN [T EXCEPT !.pc = "fail_logging", !.err = e]
    ELSE [T EXCEPT !.pc = "done", !.err = e, !.outcome = "raised"]

\* process_* raised e: what the wrapper around it does (_process_with_cleanup
\* swallows, _process_with_error_tracking goes on to log the failure, a FastAPI
\* background task lets it escape)
Raised(T, e) ==
    IF T.wrapper = "tracking" THEN [T EXCEPT !.pc = "fail_logging", !.err = e]
    ELSE [T EXCEPT !.pc = "done", !.err = e,
                   !.outcome = IF T.wrapper = "cleanup" THEN "swallowed" ELSE "raised"]

\* process_* returned its result
Returned(T) == [T EXCEPT !.pc = "done", !.outcome = "returned"]

\* Faulty variant of AttemptFailed: the delay is not doubled
AttemptFailedSameDelay(T, e) ==
    IF T.attempt = MaxAttempts - 1
    THEN Raised(T, e)
    ELSE [T EXCEPT !.pc = "backoff", !.slept = Append(T.slept, T.delay),
                   !.attempt = T.attempt + 1]

\* Faulty variant of AttemptFailed: it sleeps before it looks whether the
\* attempt was the last
AttemptFailedSleepsFirst(T, e) ==
    IF T.attempt = MaxAttempts - 1
    THEN Raised([T EXCEPT !.slept = Append(T.slept, T.delay)], e)
    ELSE [T EXCEPT !.pc = "backoff", !.slept = Append(T.slept, T.delay),
                   !.delay = T.delay * 2, !.attempt = T.attempt + 1]

\* Faulty variant of AttemptFailed: a completion whose text cannot be extracted
\* ends the run at once, whatever the attempt
AttemptFailedMalformedRaises(T, e) ==
    IF T.attempt = MaxAttempts - 1 \/ e[1] = "malformed"
    THEN Raised(T, e)
    ELSE [T EXCEPT !.pc = "backoff", !.slept = Append(T.slept, T.delay),
                   !.delay = T.delay * 2, !.attempt = T.attempt + 1]

\* `except Exception as e` of the attempt loop (lines 143-152, 264-271)
AttemptFailed(T, e) ==
    IF T.attempt = MaxAttempts - 1
    THEN Raised(T, e)
    ELSE [T EXCEPT !.pc = "backoff", !.slept = Append(T.slept, T.delay),
                   !.delay = T.delay * 2, !.attempt = T.attempt + 1]

\* The completion call returned a completion whose text was extracted
\* (lines 98-105, 217-235)
CompletionSucceeded(T, id) ==
    [T EXCEPT !.content = id, !.pc = "inserting", !.log_attempt = 0,
              !.log_delay = LogDelay0]

\* Faulty variant of InsertFailed: when the last insert has failed the run
\* returns its result all the same
InsertFailedSwallowed(T) ==
    IF T.log_attempt < MaxLogAttempts - 1
    THEN [T EXCEPT !.pc = "log_backoff", !.slept = Append(T.slept, T.log_delay),
                   !.log_delay = T.log_delay * 2, !.log_attempt = T.log_attempt + 1]
    ELSE Returned(T)

\* Faulty variant of InsertFailed: when the last insert has failed the
\* completion call is made again without the attempt being counted
InsertFailedFreeRetry(T) ==
    IF T.log_attempt < MaxLogAttempts - 1
    THEN [T EXCEPT !.pc = "log_backoff", !.slept = Append(T.slept, T.log_delay),
                   !.log_delay = T.log_delay * 2, !.log_attempt = T.log_attempt + 1]
    ELSE [T EXCEPT !.pc = "backoff", !.slept = Append(T.slept, T.delay),
                   !.delay = T.delay * 2]

\* `except Exception as log_error` of the logging loop (lines 124-135, 247-257):
\* the HTTPException of the last attempt is raised inside the attempt loop's try
InsertFailed(T) ==
    IF T.log_attempt < MaxLogAttempts - 1
    THEN [T EXCEPT !.pc = "log_backoff", !.slept = Append(T.slept, T.log_delay),
                   !.log_delay = T.log_delay * 2, !.log_attempt = T.log_attempt + 1]
    ELSE AttemptFailed(T, <<"logging", T.inserts>>)

\* The row a run inserts (log_interaction, lines 109-121 and 239-244)
MainRow(t, T) ==
    [route |-> IF T.kind = "transcript" THEN TranscriptRoute ELSE IcebreakerRoute,
     input |-> IF T.kind = "transcript" THEN TranscriptInput(T.payload.val)
               ELSE IcebreakerInput(T.payload.val),
     output |-> T.content, job_id |-> NoId, status |-> "", task |-> t, n |-> T.inserts]

\* The row _process_with_error_tracking inserts for a failed run (lines 260-266)
FailedRow(t, T) ==
    [route |-> FailedRoute, input |-> T.payload.val, output |-> <<"error">> \o T.err,
     job_id |-> T.job_id, status |-> "failed", task |-> t, n |-> T.inserts]

\* A step of task t that leaves it as record T
StepTo(t, T) ==
    /\ tasks' = [tasks EXCEPT ![t] = T]
    /\ running' = running

\* The scheduled coroutine starts and runs to its first completion call
TaskStart(t) ==
    /\ tasks[t].pc = "scheduled"
    /\ ~LoopBlocked
    /\ IF tasks[t].payload.fmt # "object"
       THEN \* payload.get raises before the attempt loop (lines 51, 180)
            StepTo(t, Raised(tasks[t], <<"AttributeError", 0>>))
       ELSE StepTo(t, [tasks[t] EXCEPT !.pc = "calling", !.delay = Delay0,
                           !.slept = IF tasks[t].kind = "transcript"
                                     THEN <<InitialSleep>> ELSE <<>>])
    /\ resp' = NoResp
    /\ UNCHANGED <<store, env, queue, log, faults>>

\* How a completion call can end: with a completion ("ok"), with an exception
\* ("error"), with a completion whose text cannot be extracted ("malformed");
\* asyncio.wait_for ends a call of process_transcript that did not return in
\* time ("timeout", line 95)
CompletionOutcomes(kind) ==
    {"ok", "error", "malformed"} \cup (IF kind = "transcript" THEN {"timeout"} ELSE {})

\* The completion call of task t ends; at most `budget` external calls fail
CompletionReturns(t, budget) ==
    /\ tasks[t].pc = "calling"
    /\ tasks[t].kind = "icebreaker" \/ ~LoopBlocked
    /\ \E o \in CompletionOutcomes(tasks[t].kind) :
        LET T == [tasks[t] EXCEPT !.calls = @ + 1,
                      !.hist = Append(@, IF o = "ok" THEN "call_ok" ELSE "call_fail"),
                      !.outs = Append(@, o)]
        IN  /\ o # "ok" => faults < budget
            /\ faults' = IF o = "ok" THEN faults ELSE faults + 1
            /\ StepTo(t, IF o = "ok" THEN CompletionSucceeded(T, <<t, T.calls>>)
                         ELSE AttemptFailed(T, <<o, T.calls>>))
    /\ resp' = NoResp
    /\ UNCHANGED <<store, env, queue, log>>

\* The completion call of process_icebreaker never returns: nothing in
\* lines 208-215 ends it
CompletionHangs(t, budget) ==
    /\ tasks[t].pc = "calling"
    /\ tasks[t].kind = "icebreaker"
    /\ faults < budget
    /\ faults' = faults + 1
    /\ StepTo(t, [tasks[t] EXCEPT !.pc = "hung", !.calls = @ + 1,
                      !.hist = Append(@, "call_hung"), !.outs = Append(@, "hung")])
    /\ resp' = NoResp
    /\ UNCHANGED <<store, env, queue, log>>

\* asyncio.sleep(delay) of the attempt loop ends: the next attempt's call starts
BackoffEnds(t) ==
    /\ tasks[t].pc = "backoff"
    /\ ~LoopBlocked
    /\ StepTo(t, [tasks[t] EXCEPT !.pc = "calling"])
    /\ resp' = NoResp
    /\ UNCHANGED <<store, env, queue, log, faults>>

\* log_interaction of task t ends: the row is inserted and it returns ("ok"),
\* it raises without a row ("error"), or the row is inserted and the reply does
\* not arrive within the timeout, so that it raises ("lost", supabase_logger.py
\* lines 81, 93-94)
InsertReturns(t, budget) ==
    /\ tasks[t].pc = "inserting"
    /\ ~LoopBlocked
    /\ \E o \in {"ok", "error", "lost"} :
        LET T == [tasks[t] EXCEPT !.inserts = @ + 1,
                      !.hist = Append(@, IF o = "ok" THEN "ins_ok" ELSE "ins_fail"),
                      !.outs = Append(@, o)]
        IN  /\ o # "ok" => faults < budget
            /\ faults' = IF o = "ok" THEN faults ELSE faults + 1
            /\ log' = IF o = "error" THEN log ELSE log \cup {MainRow(t, T)}
            /\ StepTo(t, IF o = "ok" THEN Returned(T) ELSE InsertFailed(T))
    /\ resp' = NoResp
    /\ UNCHANGED <<store, env, queue>>

\* asyncio.sleep(log_delay) of the logging loop ends: the next insert starts
LogBackoffEnds(t) ==
    /\ tasks[t].pc = "log_backoff"
    /\ ~LoopBlocked
    /\ StepTo(t, [tasks[t] EXCEPT !.pc = "inserting"])
    /\ resp' = NoResp
    /\ UNCHANGED <<store, env, queue, log, faults>>

\* Faulty variant of FailLogReturns: an insert of the failure row that raised
\* is made again
FailLogRetried(t, budget) ==
    /\ tasks[t].pc = "fail_logging"
    /\ ~LoopBlocked
    /\ \E ok \in BOOLEAN :
        LET T == [tasks[t] EXCEPT !.inserts = @ + 1]
        IN  /\ ~ok => faults < budget
            /\ faults' = IF ok THEN faults ELSE faults + 1
            /\ log' = IF ok THEN log \cup {FailedRow(t, T)} ELSE log
            /\ StepTo(t, IF ok THEN [T EXCEPT !.pc = "done", !.outcome = "swallowed"] ELSE T)
    /\ resp' = NoResp
    /\ UNCHANGED <<store, env, queue>>

\* The insert of the failure row by _process_with_error_tracking ends; an
\* exception of it is printed and dropped (lines 267-268)
FailLogReturns(t, budget) ==
    /\ tasks[t].pc = "fail_logging"
    /\ ~LoopBlocked
    /\ \E ok \in BOOLEAN :
        LET T == [tasks[t] EXCEPT !.inserts = @ + 1]
        IN  /\ ~ok => faults < budget
            /\ faults' = IF ok THEN faults ELSE faults + 1
            /\ log' = IF ok THEN log \cup {FailedRow(t, T)} ELSE log
            /\ StepTo(t, [T EXCEPT !.pc = "done", !.outcome = "swallowed"])
    /\ resp' = NoResp
    /\ UNCHANGED <<store, env, queue>>

\* Faulty variant of DoneCallback: the set is cleared when a task has finished
DoneCallbackClears(t) ==
    /\ tasks[t].pc = "done"
    /\ t \in running
    /\ ~LoopBlocked
    /\ running' = {}
    /\ resp' = NoResp
    /\ UNCHANGED <<store, env, queue, tasks, log, faults>>

\* Faulty variant of DoneCallback: only a task whose run returned is taken
\* out of the set
DoneCallbackOfReturned(t) ==
    /\ tasks[t].pc = "done"
    /\ tasks[t].outcome = "returned"
    /\ t \in running
    /\ ~LoopBlocked
    /\ running' = running \ {t}
    /\ resp' = NoResp
    /\ UNCHANGED <<store, env, queue, tasks, log, faults>>

\* The event loop runs the done callback of a finished task:
\* _running_tasks.discard (transcript_controller.py lines 115, 202)
DoneCallback(t) ==
    /\ tasks[t].pc = "done"
    /\ t \in running
    /\ ~LoopBlocked
    /\ running' = running \ {t}
    /\ resp' = NoResp
    /\ UNCHANGED <<store, env, queue, tasks, log, faults>>

\* A step of a background task
TaskSteps(budget) ==
    \E t \in 1..Len(tasks) :
        \/ TaskStart(t)
        \/ CompletionReturns(t, budget)
        \/ CompletionHangs(t, budget)
        \/ BackoffEnds(t)
        \/ InsertReturns(t, budget)
        \/ LogBackoffEnds(t)
        \/ FailLogReturns(t, budget)
        \/ DoneCallback(t)

TaskStep == TaskSteps(MaxFaults)

(***************************************************************************)
(* The specification of the server                                         *)
(***************************************************************************)
\* The deployments: where the backend is reachable, whether the queue token
\* and the signing key are set, whether verification is switched off, and
\* whether the queue's SDK is installed
Env(b, tok, v, k, client, receiver) ==
    [BACKEND_URL |-> b, QSTASH_TOKEN |-> tok, QSTASH_VERIFY |-> v,
     QSTASH_CURRENT_SIGNING_KEY |-> k, QSTASH_SIGNING_KEY |-> "",
     QSTASH_NEXT_SIGNING_KEY |-> "", client |-> client, receiver |-> receiver]

Envs ==
    \* BACKEND_URL unset; a local backend; a public one without the queue's
    \* token, without its SDK, and with both: none with a signing key
    {Env(<<>>, "tok", <<>>, "", "message.publish_json", "kw"),
     Env(LocalBackend, "tok", <<>>, "", "message.publish_json", "kw"),
     Env(PublicHost, "", <<>>, "", "none", "none"),
     Env(PublicHost, "tok", <<>>, "", "none", "none"),
     Env(PublicHost, "tok", <<>>, "", "message.publish_json", "kw")}
    \cup
    \* production: the signing key set, verification switched off or not
    {Env(PublicHost, "tok", v, QueueKey, "message.publish_json", "kw") :
        v \in {<<>>, FalseText}}

Init ==
    /\ env \in Envs
    /\ resp = NoResp
    /\ queue = <<>>
    /\ tasks = <<>>
    /\ running = {}
    /\ log = {}
    /\ faults = 0
    /\ store = {}

Next ==
    \/ SubmitTranscript
    \/ SubmitIcebreaker
    \/ Deliver
    \/ OtherCallback
    \/ TaskStep

Spec == Init /\ [][Next]_vars

(***************************************************************************)
(* The Dispatcher with the runs it schedules: jobs are submitted and the   *)
(* background tasks progress                                               *)
(***************************************************************************)
NextDispatch ==
    \/ SubmitTranscript
    \/ SubmitIcebreaker
    \/ TaskStep

SpecDispatch == Init /\ [][NextDispatch]_vars

(***************************************************************************)
(* The request handlers alone.  A handler reads env and queue only, and    *)
(* the steps of the background tasks change neither.                       *)
(***************************************************************************)
NextHandlers ==
    \/ SubmitTranscript
    \/ SubmitIcebreaker
    \/ Deliver
    \/ OtherCallback

SpecHandlers == Init /\ [][NextHandlers]_vars

(***************************************************************************)
(* The request handlers in every deployment of BackendUrls: BACKEND_URL    *)
(* with and without a scheme, the queue's token set and its SDK installed  *)
(***************************************************************************)
InitScheme ==
    /\ env \in {Env(b, "tok", <<>>, "", "message.publish_json", "kw") : b \in BackendUrls}
    /\ resp = NoResp
    /\ queue = <<>>
    /\ tasks = <<>>
    /\ running = {}
    /\ log = {}
    /\ faults = 0
    /\ store = {}

SpecScheme == InitScheme /\ [][NextHandlers]_vars

(***************************************************************************)
(* Transcript processing: the jobs submitted, the callbacks of the queue   *)
(* and the background tasks of both                                        *)
(***************************************************************************)
\* The deployments in which transcript tasks are created: the local one by
\* the dispatcher, production by the callback handler
InitTranscript ==
    /\ env \in {Env(LocalBackend, "tok", <<>>, "", "message.publish_json", "kw"),
                Env(PublicHost, "tok", <<>>, QueueKey, "message.publish_json", "kw")}
    /\ resp = NoResp
    /\ queue = <<>>
    /\ tasks = <<>>
    /\ running = {}
    /\ log = {}
    /\ faults = 0
    /\ store = {}

NextTranscript ==
    \/ SubmitTranscript
    \/ Deliver
    \/ TaskStep

SpecTranscript == InitTranscript /\ [][NextTranscript]_vars

(***************************************************************************)
(* verify_qstash_request alone: every deployment, every request            *)
(***************************************************************************)
\* Values of QSTASH_VERIFY (<<>>: unset)
VerifyTexts ==
    {<<>>, <<"0">>, <<"f", "a", "l", "s", "e">>, FalseText, <<"N", "O">>,
     <<"t", "r", "u", "e">>, <<"o", "f", "f">>}

\* The deployments: QSTASH_VERIFY, the current and the legacy signing key set
\* or not, and every form of the SDK's Receiver
VerifyEnvs ==
    {[Env(PublicHost, "tok", v, k, "message.publish_json", r)
         EXCEPT !.QSTASH_SIGNING_KEY = old] :
        v \in VerifyTexts, k \in {"", QueueKey}, old \in {"", QueueKey},
        r \in {"none", "kw", "kw_str", "legacy", "legacy_str", "broken"}}

\* A message of the queue
QueueMessage ==
    [kind |-> "transcript", body |-> CHOOSE d \in TranscriptPayloads : TRUE,
     url |-> CallbackUrls[PublicHost][TranscriptCallbackPath].val, id |-> <<"msg", 1>>]

\* The requests: the queue's delivery, direct or through the proxy, with its
\* signature header under three spellings of the name; the same with the
\* signature of another key, with a signature of another body, with an empty
\* header value; and without the header
VerifyRequests ==
    LET good == {DeliveryRequest(QueueMessage, via) : via \in {"direct", "proxy"}}
        sigs(r) == {r.sig, [r.sig EXCEPT !.key = "attacker"],
                    [r.sig EXCEPT !.body = NotJson], EmptySig}
    IN  UNION {{[r EXCEPT !.sigName = n, !.sig = sg] :
                    n \in {"upstash-signature", "Upstash-Signature", "UPSTASH-SIGNATURE"},
                    sg \in sigs(r)} : r \in good}
        \cup {[r EXCEPT !.sigName = "", !.sig = EmptySig] : r \in good}

\* One call of verify_qstash_request
Verify ==
    \E req \in VerifyRequests :
        /\ resp' = [NoResp EXCEPT !.endpoint = "verify", !.body = req.body,
                        !.sigName = req.sigName, !.signer = req.sig.key,
                        !.verr = verify_qstash_request(env, req), !.fmt = req.body.fmt]
        /\ UNCHANGED <<store, env, queue, tasks, running, log, faults>>

InitVerify ==
    /\ env \in VerifyEnvs
    /\ resp = NoResp
    /\ queue = <<>>
    /\ tasks = <<>>
    /\ running = {}
    /\ log = {}
    /\ faults = 0
    /\ store = {}

NextVerify == Verify

SpecVerify == InitVerify /\ [][NextVerify]_vars

(***************************************************************************)
(* verify_qstash_request and the URL it reconstructs: every deployment,    *)
(* signed requests with and without the headers of a reverse proxy         *)
(***************************************************************************)
\* The headers and the query of a request for the transcript callback path:
\* x-forwarded-proto, x-forwarded-host, x-forwarded-port (<<>>: absent) and
\* Host
ForwardedParts ==
    [xf_proto : {<<>>, <<"h", "t", "t", "p", "s">>},
     xf_host  : {<<>>, PublicHost, PublicHost \o <<":", "8", "4", "4", "3">>},
     xf_port  : {<<>>, <<"8", "0">>, <<"4", "4", "3">>, <<"8", "4", "4", "3">>},
     host     : {InternalHost, PublicHost},
     query    : {<<>>, <<"a", "=", "1">>}]

\* One call of verify_qstash_request on a request the queue signed for the
\* URL `signed`: the public URL with or without a port, or the URL as the
\* server sees it
VerifyForwarded ==
    \E p \in ForwardedParts,
       signed \in {<<"h", "t", "t", "p", "s">> \o <<":", "/", "/">> \o PublicHost,
                   <<"h", "t", "t", "p", "s">> \o <<":", "/", "/">> \o PublicHost
                       \o <<":", "8", "4", "4", "3">>,
                   <<"h", "t", "t", "p">> \o <<":", "/", "/">> \o InternalHost} :
        LET raw == JsonObject(QueueMessage.body)
            tail == TranscriptCallbackPath
                        \o (IF p.query # <<>> THEN <<"?">> \o p.query ELSE <<>>)
            req == [sigName |-> "Upstash-Signature",
                    sig |-> [key |-> QueueKey, body |-> raw, url |-> signed \o tail],
                    body |-> raw, scheme |-> <<"h", "t", "t", "p">>, host |-> p.host,
                    path |-> TranscriptCallbackPath, query |-> p.query,
                    xf_proto |-> p.xf_proto, xf_host |-> p.xf_host, xf_port |-> p.xf_port]
        IN  /\ resp = NoResp
            /\ resp' = [endpoint |-> "verify_qstash_request", parts |-> p,
                        signed |-> signed \o tail, url |-> ReconstructUrl(req),
                        verr |-> verify_qstash_request(env, req),
                        against |-> VerifiedAgainst(env, req)]
            /\ UNCHANGED <<store, env, queue, tasks, running, log, faults>>

SpecForwarded == InitVerify /\ [][VerifyForwarded]_vars

(***************************************************************************)
(* The URL functions of the Callback Gateway alone: normalize_base_url,    *)
(* build_callback_url and is_loopback_or_private are called on texts put    *)
(* together from parts, so that what a text is made of is known             *)
(***************************************************************************)
\* The most "/" at the end of a value, inside its quotes, and at the start of
\* a path
MaxSlashes == 2

\* n times "/"
Slashes(n) == [i \in 1..n |-> "/"]

\* Host texts of BACKEND_URL values; local says whether the text starts with
\* localhost, 127.0.0.1 or 0.0.0.0 (host names are compared without case)
BaseHosts ==
    {[text |-> LocalBackend, local |-> TRUE],
     [text |-> <<"L", "o", "c", "a", "l", "H", "o", "s", "t">>, local |-> TRUE],
     [text |-> Loopback4, local |-> TRUE],
     [text |-> AnyAddr4 \o <<":", "8", "0">>, local |-> TRUE],
     [text |-> Localhost \o <<".", "e", "x", ".", "c", "o", "m">>, local |-> TRUE],
     [text |-> PublicHost, local |-> FALSE],
     [text |-> <<"1", "0", ".", "0", ".", "0", ".", "5">>, local |-> FALSE],
     [text |-> <<"m", "y", "-", "l", "o", "c", "a", "l", "h", "o", "s", "t">>, local |-> FALSE],
     [text |-> <<>>, local |-> FALSE]}

\* The values of BACKEND_URL: white space around the value (pad), an opening
\* and a closing quote, a scheme, a host text, "/" before the closing quote
\* (inner) and after it (trail)
BaseUrlParts ==
    {[pad |-> pad, open |-> q[1], close |-> q[2], scheme |-> scheme, host |-> h,
      inner |-> inner, trail |-> trail] :
        pad \in {<<>>, <<" ">>},
        q \in {<< <<>>, <<>> >>, << <<"\"">>, <<"\"">> >>, << <<"'">>, <<"'">> >>,
               << <<"\"">>, <<"'">> >>, << <<"\"">>, <<>> >>},
        scheme \in {<<>>, HttpScheme, HttpsScheme},
        h \in BaseHosts, inner \in 0..MaxSlashes, trail \in 0..MaxSlashes}

\* The text of a value
BaseUrlText(p) ==
    p.pad \o p.open \o p.scheme \o p.host.text \o Slashes(p.inner) \o p.close
        \o Slashes(p.trail) \o p.pad

\* Hosts of URLs, as they are written in a URL, with what they are: "empty",
\* "localhost" (the names localhost and ip6-localhost), "loopback" and
\* "private" (IP addresses for which ipaddress says is_loopback, is_private),
\* "public" (other IP addresses), "name" (texts that are no IP address), and
\* "unparseable" (a text with which urlparse raises)
UrlHosts ==
    {[text |-> <<>>, class |-> "empty"],
     [text |-> Localhost, class |-> "localhost"],
     [text |-> <<"L", "O", "C", "A", "L", "H", "O", "S", "T">>, class |-> "localhost"],
     [text |-> Ip6Localhost, class |-> "localhost"],
     [text |-> Loopback4, class |-> "loopback"],
     [text |-> <<"1", "2", "7", ".", "8", ".", "9", ".", "1">>, class |-> "loopback"],
     [text |-> <<"[">> \o Ip6Loopback \o <<"]">>, class |-> "loopback"],
     [text |-> <<"1", "0", ".", "0", ".", "0", ".", "5">>, class |-> "private"],
     [text |-> <<"1", "7", "2", ".", "1", "6", ".", "0", ".", "1">>, class |-> "private"],
     [text |-> <<"1", "7", "2", ".", "3", "1", ".", "2", "5", "5", ".", "2", "5", "5">>, class |-> "private"],
     [text |-> <<"1", "9", "2", ".", "1", "6", "8", ".", "1", ".", "1">>, class |-> "private"],
     [text |-> <<"1", "6", "9", ".", "2", "5", "4", ".", "1", ".", "1">>, class |-> "private"],
     [text |-> AnyAddr4, class |-> "private"],
     [text |-> <<"8", ".", "8", ".", "8", ".", "8">>, class |-> "public"],
     [text |-> <<"1", "1", ".", "0", ".", "0", ".", "1">>, class |-> "public"],
     [text |-> <<"1", "7", "2", ".", "3", "2", ".", "0", ".", "1">>, class |-> "public"],
     [text |-> <<"1", "9", "2", ".", "1", "6", "9", ".", "1", ".", "1">>, class |-> "public"],
     [text |-> PublicHost, class |-> "name"],
     [text |-> Localhost \o <<".", "e", "x", ".", "c", "o", "m">>, class |-> "name"],
     [text |-> <<"1", "0", ".", "0", ".", "0", ".", "2", "5", "6">>, class |-> "name"],
     [text |-> <<"1", "2", "7", ".", "1">>, class |-> "name"],
     [text |-> <<"l", "o", "c", "a", "l", "h", "o", "s", "t", ".">>, class |-> "name"],
     [text |-> <<"[">> \o Ip6Loopback, class |-> "unparseable"]}

\* One call of one of the functions.  resp holds the call and what it returned
\* or raised (out); of a call of normalize_base_url also what
\* normalize_base_url makes of its result (again), once that call was made.
NextUrls ==
    \/ \E p \in BaseUrlParts :
        /\ resp = NoResp
        /\ resp' = [endpoint |-> "normalize_base_url", parts |-> p,
                    out |-> normalize_base_url(BaseUrlText(p)), again |-> Raise("")]
        /\ UNCHANGED <<store, env, queue, tasks, running, log, faults>>
    \/ /\ resp.endpoint = "normalize_base_url"
       /\ resp.out.err = ""
       /\ resp' = [resp EXCEPT !.endpoint = "normalize_base_url twice",
                               !.again = normalize_base_url(resp.out.val)]
       /\ UNCHANGED <<store, env, queue, tasks, running, log, faults>>
    \/ \E p \in {x \in BaseUrlParts : x.pad = <<>> /\ x.open = x.close},
          lead \in 0..MaxSlashes, name \in {<<>>, <<"c", "b">>} :
        /\ resp = NoResp
        /\ resp' = [endpoint |-> "build_callback_url", parts |-> p, lead |-> lead,
                    name |-> name, base |-> normalize_base_url(BaseUrlText(p)),
                    out |-> build_callback_url(BaseUrlText(p), Slashes(lead) \o name)]
        /\ UNCHANGED <<store, env, queue, tasks, running, log, faults>>
    \/ \E h \in UrlHosts, scheme \in {<<>>, HttpScheme, HttpsScheme},
          user \in {<<>>, <<"u", "@">>}, port \in {<<>>, <<":", "8", "0", "8", "0">>},
          path \in {<<>>, <<"/", "x">>} :
        /\ resp = NoResp
        /\ resp' = [endpoint |-> "is_loopback_or_private", host |-> h, scheme |-> scheme,
                    out |-> is_loopback_or_private(
                                scheme \o user \o h.text \o port \o path)]
        /\ UNCHANGED <<store, env, queue, tasks, running, log, faults>>

\* The functions read nothing of the deployment but the text they are given
InitUrls ==
    /\ env = Env(<<>>, "", <<>>, "", "none", "none")
    /\ resp = NoResp
    /\ queue = <<>>
    /\ tasks = <<>>
    /\ running = {}
    /\ log = {}
    /\ faults = 0
    /\ store = {}

SpecUrls == InitUrls /\ [][NextUrls]_vars

(***************************************************************************)
(* One Job Processor run under its wrapper, with every outcome of every    *)
(* external call it makes                                                  *)
(***************************************************************************)
\* The most external calls one run makes: its completion calls, its inserts
\* and the insert of the failure row
RunCalls == MaxAttempts * (MaxLogAttempts + 1) + 1

\* The runs: as the transcript dispatcher, the transcript callback handler and
\* the icebreaker handlers schedule them; the last on the body `[]` that the
\* icebreaker callback handler accepts
Runs ==
    {NewTask("transcript", "cleanup", JsonObject(d), NoId, 0) : d \in TranscriptPayloads}
    \cup {NewTask("transcript", "tracking", JsonObject(d), <<DictGet(d, "name", "unknown")>>, 1) :
            d \in TranscriptPayloads}
    \cup {NewTask("icebreaker", "background", JsonObject(d), NoId, m) :
            d \in IcebreakerPayloads, m \in {0, 1}}
    \cup {NewTask("icebreaker", "background", JsonArray, NoId, 1)}

InitRun ==
    /\ env = Env(LocalBackend, "tok", <<>>, "", "message.publish_json", "kw")
    /\ resp = NoResp
    /\ queue = <<>>
    /\ \E T \in Runs :
        /\ tasks = <<T>>
        /\ running = IF T.kind = "transcript" THEN {1} ELSE {}
    /\ log = {}
    /\ faults = 0
    /\ store = {}

NextRun == TaskSteps(RunCalls)

SpecRun == InitRun /\ [][NextRun]_vars

(***************************************************************************)
(* One run whose external calls all end.  Every completion call and every  *)
(* insert returns or raises, every asyncio.sleep ends, and the event loop  *)
(* runs the coroutine and the done callback when they are ready: weak      *)
(* fairness of the steps.                                                  *)
(***************************************************************************)
NextReturning ==
    \E t \in 1..Len(tasks) :
        \/ TaskStart(t)
        \/ CompletionReturns(t, RunCalls)
        \/ BackoffEnds(t)
        \/ InsertReturns(t, RunCalls)
        \/ LogBackoffEnds(t)
        \/ FailLogReturns(t, RunCalls)
        \/ DoneCallback(t)

SpecReturning == InitRun /\ [][NextReturning]_vars /\ WF_vars(NextReturning)

(***************************************************************************)
(* The same job run in local mode and through the queue's callback: the    *)
(* run the dispatcher schedules and the run the callback handler schedules *)
(* on the same payload, side by side                                       *)
(***************************************************************************)
\* The external calls of the two runs that may fail: the completion calls of both
PairFaults == 2 * MaxAttempts

\* Task 1 as enqueue_transcript_job_controller / enqueue_icebreaker_job
\* schedules it, task 2 as the callback handler of the kind does
Pairs ==
    {<<NewTask("transcript", "cleanup", JsonObject(d), NoId, 0),
       NewTask("transcript", "tracking", JsonObject(d), <<DictGet(d, "name", "unknown")>>, 1)>> :
        d \in TranscriptPayloads}
    \cup {<<NewTask("icebreaker", "background", JsonObject(d), NoId, 0),
             NewTask("icebreaker", "background", JsonObject(d), NoId, 1)>> :
            d \in IcebreakerPayloads}

InitPair ==
    /\ env = Env(LocalBackend, "tok", <<>>, "", "message.publish_json", "kw")
    /\ resp = NoResp
    /\ queue = <<>>
    /\ tasks \in Pairs
    /\ running = IF tasks[1].kind = "transcript" THEN {1, 2} ELSE {}
    /\ log = {}
    /\ faults = 0
    /\ store = {}

NextPair == TaskSteps(PairFaults)

SpecPair == InitPair /\ [][NextPair]_vars

(***************************************************************************)
(* The list and delete endpoints over the Interaction Log                  *)
(* (services/supabase_logger.py, api/routers, api/controllers).  Here env  *)
(* also holds SUPABASE_URL and SUPABASE_KEY (the service role or the       *)
(* anonymous key), "" when unset.                                          *)
(***************************************************************************)
\* The check the endpoints make before they call the Interaction Log
SupabaseConfigured(e) == e.SUPABASE_URL # "" /\ e.SUPABASE_KEY # ""

\* How a request to the persistence API can end: with a 2xx reply ("ok"), with
\* an error status, without a reply in time, or without a connection
PersistenceOutcomes == {"ok", "status", "timeout", "network"}

\* The id the store assigned to a row
RowId(r) == <<r.task, r.n>>

\* fetch_interactions: the rows of the route, the empty list on any failure
fetch_interactions(e, route, out) ==
    IF ~SupabaseConfigured(e) THEN {}
    ELSE IF out = "ok" THEN {r \in log : r.route = route}
    ELSE {}

\* delete_interaction_by_id: the number of rows deleted, 0 on any failure
delete_interaction_by_id(e, row_id, out) ==
    IF ~SupabaseConfigured(e) \/ row_id = NoId THEN 0
    ELSE IF out = "ok" THEN Cardinality({r \in log : RowId(r) = row_id})
    ELSE 0

\* GET /api/v1/transcripts, GET /api/v1/icebreakers?type=plain
ListRows(kind) ==
    \E out \in PersistenceOutcomes :
        LET rows == fetch_interactions(
                        env, IF kind = "transcript" THEN TranscriptRoute ELSE IcebreakerRoute,
                        out)
        IN  /\ resp' = [endpoint |-> "list", kind |-> kind,
                        out |-> IF SupabaseConfigured(env) THEN out ELSE "none",
                        status |-> IF SupabaseConfigured(env) THEN 200 ELSE 503,
                        items |-> IF SupabaseConfigured(env) THEN rows ELSE {}, deleted |-> 0]
            /\ UNCHANGED <<store, env, queue, tasks, running, log, faults>>

\* DELETE /api/v1/transcripts/{id}, DELETE /api/v1/icebreakers/{id}
DeleteRow(kind) ==
    \E out \in PersistenceOutcomes, id \in {<<t, 1>> : t \in 1..MaxTasks + 1} :
        LET deleted == delete_interaction_by_id(env, id, out)
        IN  /\ resp' = [endpoint |-> "delete", kind |-> kind,
                        out |-> IF SupabaseConfigured(env) THEN out ELSE "none",
                        status |-> IF ~SupabaseConfigured(env) THEN 503
                                   ELSE IF deleted <= 0 THEN 404 ELSE 200,
                        items |-> {}, deleted |-> deleted]
            /\ log' = IF SupabaseConfigured(env) /\ out = "ok"
                      THEN {r \in log : RowId(r) # id} ELSE log
            /\ UNCHANGED <<store, env, queue, tasks, running, faults>>

\* The deployments with and without the persistence settings, and the rows
\* that finished runs have left
InitLog ==
    /\ env \in {Env(LocalBackend, "tok", <<>>, "", "message.publish_json", "kw")
                    @@ [SUPABASE_URL |-> u, SUPABASE_KEY |-> k] :
                 u \in {"", "url"}, k \in {"", "key"}}
    /\ resp = NoResp
    /\ queue = <<>>
    /\ tasks = <<>>
    /\ running = {}
    /\ log \in SUBSET {MainRow(t, [T EXCEPT !.content = <<t, 1>>, !.inserts = 1]) :
                          t \in 1..MaxTasks, T \in {R \in Runs : R.payload.fmt = "object"}}
    /\ faults = 0
    /\ store = {}

NextLog == \E kind \in {"transcript", "icebreaker"} : ListRows(kind) \/ DeleteRow(kind)

SpecLog == InitLog /\ [][NextLog]_vars

(***************************************************************************)
(* GET /api/v1/icebreakers with type=all, over a table of rows with        *)
(* distinct created_at                                                     *)
(***************************************************************************)
\* Bound of the model: the rows of the table
MaxRows == 3

PdfRoute == "/api/v1/generate-icebreaker-from-pdf"

\* The rows of S as a list, by created_at descending (order=created_at.desc,
\* and list.sort(key=created_at, reverse=True) on rows of distinct created_at)
NewestFirst(S) ==
    [i \in 1..Cardinality(S) |->
        CHOOSE r \in S : Cardinality({x \in S : x.created_at > r.created_at}) = i - 1]

\* s[from:to] of Python, for from and to that are not negative
Slice(s, from, to) == SubSeq(s, from + 1, IF to < Len(s) THEN to ELSE Len(s))

\* fetch_interactions when the persistence API answers: the query it sends
\* (route=eq., order=created_at.desc, limit and offset clamped)
FetchPage(rows, route, limit, offset) ==
    LET lim == IF limit < 0 THEN 0 ELSE IF limit > 1000 THEN 1000 ELSE limit
        off == IF offset < 0 THEN 0 ELSE offset
    IN  Slice(NewestFirst({r \in rows : r.route = route}), off, off + lim)

\* list_icebreakers, type == all: the items of the response
list_icebreakers(rows, limit, offset) ==
    LET rows_plain == FetchPage(rows, IcebreakerRoute, limit, 0)
        rows_pdf == FetchPage(rows, PdfRoute, limit, 0)
        merged == rows_plain \o rows_pdf
        sorted == NewestFirst({merged[i] : i \in 1..Len(merged)})
    IN  Slice(sorted, offset, offset + limit)

\* GET /api/v1/icebreakers?type=all&limit=&offset=
ListIcebreakers ==
    \E limit \in 0..MaxRows, offset \in 0..MaxRows :
        /\ resp' = [endpoint |-> "list_icebreakers", limit |-> limit, offset |-> offset,
                    items |-> list_icebreakers(log, limit, offset)]
        /\ UNCHANGED <<store, env, queue, tasks, running, log, faults>>

\* Persistence is configured, and the table holds MaxRows rows, the row
\* created at time i with any of the three routes
InitList ==
    /\ env = Env(LocalBackend, "tok", <<>>, "", "message.publish_json", "kw")
                @@ [SUPABASE_URL |-> "url", SUPABASE_KEY |-> "key"]
    /\ resp = NoResp
    /\ queue = <<>>
    /\ tasks = <<>>
    /\ running = {}
    /\ log \in {{[route |-> f[i], created_at |-> i] : i \in 1..MaxRows} :
                  f \in [1..MaxRows -> {IcebreakerRoute, PdfRoute, TranscriptRoute}]}
    /\ faults = 0
    /\ store = {}

SpecList == InitList /\ [][ListIcebreakers]_vars

(***************************************************************************)
(* The Job Store and the variant of transcript processing that uses it.    *)
(* This variant is not among the source files; it is modelled from         *)
(* spec.md (Job Store Entry, 4.2 design note, 4.3 step 3, 4.4 step 6, 5).  *)
(***************************************************************************)
\* The job id Submit generates for its n-th job, and the one the callback
\* handler generates for the n-th run when the body carries none
JobId(n) == <<"job", n>>
GeneratedId(n) == <<"gen", n>>

\* A write to the store: the last writer wins
StoreWrite(st, job_id, status) ==
    DictSet(st, job_id, Append(DictGet(st, job_id, <<>>), status))

\* Submit generates the job id, puts it into the payload, creates the entry
\* as queued, and publishes the job
StoreSubmit ==
    /\ Len(queue) < MaxQueue
    /\ \E d \in TranscriptPayloads :
        LET id == JobId(Len(queue) + 1)
        IN  /\ store' = StoreWrite(store, id, "queued")
            /\ queue' = Append(queue,
                           [kind |-> "transcript", body |-> DictSet(d, "job_id", id),
                            url |-> CallbackUrls[PublicHost][TranscriptCallbackPath].val,
                            id |-> <<"msg", Len(queue) + 1>>])
    /\ resp' = NoResp
    /\ UNCHANGED <<env, tasks, running, log, faults>>

\* The callback handler takes the job id of the body, or generates one,
\* creates the entry if there is none, and schedules the run
StoreCallback(body, m) ==
    /\ Len(tasks) < MaxTasks
    /\ LET id == DictGet(body, "job_id", GeneratedId(Len(tasks) + 1))
       IN  /\ store' = IF DictHas(store, id) THEN store ELSE StoreWrite(store, id, "queued")
           /\ tasks' = Append(tasks, NewTask("transcript", "store", JsonObject(body), id, m))
    /\ resp' = NoResp
    /\ UNCHANGED <<env, queue, running, log, faults>>

\* The queue delivers one of its messages (at least once)
StoreDeliver == \E m \in 1..Len(queue) : StoreCallback(queue[m].body, m)

\* A callback whose body carries no job id
StoreOtherCallback == \E d \in TranscriptPayloads : StoreCallback(d, 0)

\* The wrapper of the Job Processor sets the entry to processing when the run
\* starts
StoreRunStarts(t) ==
    /\ tasks[t].wrapper = "store"
    /\ tasks[t].pc = "scheduled"
    /\ store' = StoreWrite(store, tasks[t].job_id, "processing")
    /\ tasks' = [tasks EXCEPT ![t].pc = "calling"]
    /\ resp' = NoResp
    /\ UNCHANGED <<env, queue, running, log, faults>>

\* and to completed or failed as the last step of the run
StoreRunEnds(t) ==
    /\ tasks[t].wrapper = "store"
    /\ tasks[t].pc = "calling"
    /\ \E status \in {"completed", "failed"} :
        /\ store' = StoreWrite(store, tasks[t].job_id, status)
        /\ tasks' = [tasks EXCEPT ![t].pc = "done",
                         ![t].outcome = IF status = "completed" THEN "returned" ELSE "raised"]
    /\ resp' = NoResp
    /\ UNCHANGED <<env, queue, running, log, faults>>

StoreRun == \E t \in 1..Len(tasks) : StoreRunStarts(t) \/ StoreRunEnds(t)

NextStore ==
    \/ StoreSubmit
    \/ StoreDeliver
    \/ StoreOtherCallback
    \/ StoreRun

SpecStore == Init /\ [][NextStore]_vars

(***************************************************************************)
(* Properties                                                              *)
(***************************************************************************)
\* The callback URL Submit builds for a job of a kind
CallbackPathOf(kind) ==
    IF kind = "transcript" THEN TranscriptCallbackPath ELSE IcebreakerCallbackPath
SubmitUrl(kind) == build_callback_url(env.BACKEND_URL, CallbackPathOf(kind))

\* The response r answers a Submit whose callback URL is loopback or private
IsLocalSubmit(r) ==
    /\ r.endpoint = "submit"
    /\ SubmitUrl(r.kind).err = ""
    /\ is_loopback_or_private(SubmitUrl(r.kind).val)

\* The response r answers a Submit whose callback URL is public
IsRemoteSubmit(r) ==
    /\ r.endpoint = "submit"
    /\ SubmitUrl(r.kind).err = ""
    /\ ~is_loopback_or_private(SubmitUrl(r.kind).val)

\* QSTASH_VERIFY switches verification off
VerificationOff ==
    Lower(env.QSTASH_VERIFY) \in {<<"0">>, <<"f", "a", "l", "s", "e">>, <<"n", "o">>}

\* A signing key is configured
KeyConfigured == env.QSTASH_CURRENT_SIGNING_KEY # "" \/ env.QSTASH_SIGNING_KEY # ""

\* The rows of the Interaction Log that runs for message m of the queue inserted
RowsOfMessage(m) ==
    {r \in log : r.route \in {TranscriptRoute, IcebreakerRoute} /\ tasks[r.task].msg = m}

\* C1: for every job published once to the queue the Job Processor workflow
\* is executed exactly once, however often the queue delivers the callback: in
\* a deployment that verifies its callbacks, no
\* message of the queue has more than one run that made a completion call,
\* nor more than one row in the Interaction Log.
C1_ExactlyOncePerJob ==
    (KeyConfigured /\ ~VerificationOff) =>
        \A m \in 1..Len(queue) :
            /\ Cardinality({t \in 1..Len(tasks) :
                                tasks[t].msg = m /\ tasks[t].calls > 0}) <= 1
            /\ Cardinality(RowsOfMessage(m)) <= 1

\* C2: when the callback URL is loopback or private, Submit (both kinds)
\* schedules exactly one run on the submitted payload and returns job_id =
\* "local-" + hex, status "queued", mode "local"; when it answers, the run it
\* scheduled has not started and has made no completion call, and nothing was
\* published.
C2_LocalSubmitSchedulesOneRun ==
    [][IsLocalSubmit(resp') =>
          /\ resp'.status = 200
          /\ Len(resp'.job_id) = 2 /\ resp'.job_id[1] = "local-"
          /\ resp'.state = "queued"
          /\ resp'.mode = "local"
          /\ Len(tasks') = Len(tasks) + 1
          /\ SubSeq(tasks', 1, Len(tasks)) = tasks
          /\ tasks'[Len(tasks')].kind = resp'.kind
          /\ tasks'[Len(tasks')].payload = resp'.body
          /\ tasks'[Len(tasks')].pc = "scheduled"
          /\ tasks'[Len(tasks')].calls = 0
          /\ queue' = queue]_vars

\* a local submission is acknowledged while an earlier run has already finished
C2_Witness ==
    /\ IsLocalSubmit(resp)
    /\ resp.mode = "local"
    /\ resp.kind = "icebreaker"
    /\ Len(tasks) = 2
    /\ tasks[1].pc = "done"
    /\ tasks[2].pc = "scheduled"

\* C3: when the callback URL is public and the publish succeeds, Submit
\* returns status "queued" and mode "qstash", and job_id is the message
\* reference the queue returned, under whichever of the spellings messageId and
\* message_id the reply carried it.
C3_RemoteSubmitReturnsReference ==
    (IsRemoteSubmit(resp) /\ resp.why = "") =>
        /\ resp.status = 200
        /\ resp.state = "queued"
        /\ resp.mode = "qstash"
        /\ resp.reply.keys # {} => (resp.job_id = resp.reply.id /\ resp.job_id # NoId)

\* the direct HTTP publish got a reply that spells the reference message_id
C3_Witness ==
    /\ IsRemoteSubmit(resp)
    /\ resp.why = ""
    /\ env.client = "none"
    /\ resp.reply.keys = {"message_id"}
    /\ resp.job_id = <<"msg", 1>>

\* C4: when building the callback URL or publishing fails during Submit, the
\* caller gets a 500 and the job is not queued at all: no run was scheduled and
\* the queue took no message for the submission.
C4_FailedSubmitQueuesNothing ==
    (resp.endpoint = "submit" /\ resp.why # "") =>
        /\ resp.status = 500
        /\ resp.scheduled = 0
        /\ ~resp.accepted

\* C5: a Submit never both schedules a local run and publishes; in local mode
\* no publish call is made and the queue is unchanged, in remote mode no run is
\* scheduled and _running_tasks is unchanged.
C5_ModesExclusive ==
    [][resp'.endpoint = "submit" =>
          /\ ~(Len(tasks') > Len(tasks) /\ resp'.publishes > 0)
          /\ IsLocalSubmit(resp') => (resp'.publishes = 0 /\ queue' = queue)
          /\ IsRemoteSubmit(resp') => (tasks' = tasks /\ running' = running)]_vars

\* a remote submission was published and no run exists
C5_Witness ==
    /\ IsRemoteSubmit(resp)
    /\ resp.mode = "qstash"
    /\ resp.publishes = 1
    /\ Len(queue) = 1
    /\ tasks = <<>>

C6_UnverifiedNeverProcessed ==
    [][(resp'.endpoint = "callback" /\ resp'.verr # "") =>
          /\ resp'.scheduled = 0
          /\ resp'.status >= 400
          /\ tasks' = tasks
          /\ running' = running]_vars

\* a callback with a well-formed body and a forged signature was turned away
\* while the queue holds a message
C6_Witness ==
    /\ resp.endpoint = "callback"
    /\ resp.kind = "icebreaker"
    /\ resp.signer = "attacker"
    /\ resp.verr # ""
    /\ resp.fmt = "object"
    /\ Len(queue) = 1

\* C7: every callback whose verification fails, the header missing or the
\* signature rejected, is answered with status 401.
C7_FailedVerificationIs401 ==
    (resp.endpoint = "callback" /\ resp.verr # "") => resp.status = 401

\* C8: verify_qstash_request returns for every request, whatever its headers
\* and body, when verification is switched off or no signing key is configured.
C8_VerifySkipped ==
    (resp.endpoint = "verify" /\ (VerificationOff \/ ~KeyConfigured)) => resp.verr = ""

\* verification is switched off by "False" in a deployment that has a key and
\* a receiver, and a forged signature passes
C8_Witness ==
    /\ resp.endpoint = "verify"
    /\ env.QSTASH_VERIFY = FalseText
    /\ KeyConfigured
    /\ env.receiver = "kw"
    /\ resp.signer = "attacker"
    /\ resp.verr = ""

\* C9 as stated: with a signing key configured and no signature header,
\* verify_qstash_request always fails with the 401 error.
C9_MissingHeaderFails ==
    (resp.endpoint = "verify" /\ KeyConfigured /\ resp.sigName = "") =>
        resp.verr = "HTTPException401"

\* C9, amended: with a signing key configured, verification not switched off,
\* the SDK's Receiver installed and constructible, and no signature header,
\* verify_qstash_request always fails with the 401 error, whatever the body and
\* the URL.
C9_MissingHeaderFailsWhenEnforced ==
    (/\ resp.endpoint = "verify"
     /\ KeyConfigured
     /\ ~VerificationOff
     /\ env.receiver \notin {"none", "broken"}
     /\ resp.sigName = "") =>
        resp.verr = "HTTPException401"

\* only the legacy key is configured, and a request without the header fails
C9_Witness ==
    /\ resp.endpoint = "verify"
    /\ env.QSTASH_CURRENT_SIGNING_KEY = ""
    /\ env.QSTASH_SIGNING_KEY = QueueKey
    /\ env.receiver = "legacy"
    /\ ~VerificationOff
    /\ resp.sigName = ""
    /\ resp.verr = "HTTPException401"

\* C10 as stated: every verified callback with a parseable body is answered
\* "processing" (icebreaker) or "accepted" (transcript) and has scheduled a run.
C10_VerifiedParseableScheduled ==
    (resp.endpoint = "callback" /\ resp.verr = "" /\ resp.fmt \in {"object", "array"}) =>
        /\ resp.status = 200
        /\ resp.scheduled = 1
        /\ resp.state = (IF resp.kind = "icebreaker" THEN "processing" ELSE "accepted")

\* C10 for object bodies: every verified callback whose body parses to a JSON
\* object (on the icebreaker endpoint: to any JSON value) schedules exactly one run
\* on the parsed body and is answered "processing" (icebreaker) or "accepted"
\* (transcript); when it is answered, the run has not started and has made
\* no completion call.
C10_VerifiedObjectScheduled ==
    [][(/\ resp'.endpoint = "callback"
        /\ resp'.verr = ""
        /\ resp'.fmt = "object" \/ (resp'.kind = "icebreaker" /\ resp'.fmt = "array")) =>
          /\ resp'.status = 200
          /\ resp'.state = (IF resp'.kind = "icebreaker" THEN "processing" ELSE "accepted")
          /\ Len(tasks') = Len(tasks) + 1
          /\ SubSeq(tasks', 1, Len(tasks)) = tasks
          /\ tasks'[Len(tasks')].kind = resp'.kind
          /\ tasks'[Len(tasks')].payload = resp'.body
          /\ tasks'[Len(tasks')].pc = "scheduled"
          /\ tasks'[Len(tasks')].calls = 0]_vars

\* the queue's delivery, signed with its key, was verified and accepted by
\* the transcript endpoint of a deployment that enforces verification
C10_Witness ==
    /\ resp.endpoint = "callback"
    /\ resp.kind = "transcript"
    /\ env.QSTASH_CURRENT_SIGNING_KEY = QueueKey
    /\ ~VerificationOff
    /\ resp.signer = QueueKey
    /\ resp.verr = ""
    /\ resp.state = "accepted"
    /\ tasks[Len(tasks)].msg = 1
    /\ tasks[Len(tasks)].pc = "scheduled"

\* C31: the icebreaker callback endpoint is lenient.  A callback that passed
\* verification and whose body is not parseable JSON is answered 200
\* "processing", never 400, and the step schedules exactly one run, on the
\* empty object.
C31_IcebreakerLenient ==
    [][(/\ resp'.endpoint = "callback"
        /\ resp'.kind = "icebreaker"
        /\ resp'.verr = ""
        /\ resp'.fmt = "invalid"
        /\ (resp' # resp \/ Len(tasks') # Len(tasks))) =>
          /\ resp'.status = 200
          /\ resp'.state = "processing"
          /\ resp'.scheduled = 1
          /\ Len(tasks') = Len(tasks) + 1
          /\ SubSeq(tasks', 1, Len(tasks)) = tasks
          /\ tasks'[Len(tasks')] =
                NewTask("icebreaker", "background", JsonObject({}), NoId, 0)
          /\ running' = running]_vars

\* the icebreaker endpoint has answered "processing" to a body that is not
\* JSON, and the run on the empty object is scheduled
C31_Witness ==
    /\ resp.endpoint = "callback"
    /\ resp.kind = "icebreaker"
    /\ resp.body = NotJson
    /\ resp.verr = ""
    /\ resp.status = 200
    /\ resp.state = "processing"
    /\ Len(tasks) >= 1
    /\ tasks[Len(tasks)].kind = "icebreaker"
    /\ tasks[Len(tasks)].payload = JsonObject({})

\* C27: callbacks for two different jobs are never tracked under the same job
\* id: two runs the transcript callback handler scheduled for different messages
\* of the queue, or on different payloads, have different job ids.
C27_DistinctJobsDistinctIds ==
    \A t, u \in 1..Len(tasks) :
        (/\ tasks[t].wrapper = "tracking" /\ tasks[u].wrapper = "tracking"
         /\ tasks[t].msg # tasks[u].msg \/ tasks[t].payload # tasks[u].payload) =>
            tasks[t].job_id # tasks[u].job_id

\* C17: a callback to the transcript endpoint that passed verification and
\* whose body is not parseable JSON is answered 400, and schedules no run.
C17_UnparseableIs400 ==
    [][(/\ resp'.endpoint = "callback"
        /\ resp'.kind = "transcript"
        /\ resp'.verr = ""
        /\ resp'.fmt = "invalid") =>
          /\ resp'.status = 400
          /\ resp'.scheduled = 0
          /\ tasks' = tasks
          /\ running' = running]_vars

\* the transcript endpoint answered 400 to a body that is not JSON, in a
\* deployment that holds the signing key and has verification switched off
C17_Witness ==
    /\ resp.endpoint = "callback"
    /\ resp.kind = "transcript"
    /\ resp.verr = ""
    /\ resp.fmt = "invalid"
    /\ resp.status = 400
    /\ KeyConfigured

(***************************************************************************)
(* Properties of a Job Processor run                                       *)
(***************************************************************************)
\* The sleeps of a run after the initial sleep of process_transcript
Waits(T) ==
    IF T.kind = "transcript" /\ T.slept # <<>> THEN Tail(T.slept) ELSE T.slept

\* The first n external calls of the run were h
Began(T, h) == Len(T.hist) >= Len(h) /\ SubSeq(T.hist, 1, Len(h)) = h

\* The run has ended: process_* returned or raised
Ended(T) == T.pc \in {"done", "fail_logging"}

\* C11: a run whose completion call failed twice and then succeeded has made
\* exactly three completion calls, uses the completion of the third call (also in
\* the row it inserts), and slept 1 s after the first failure and 2 s after the
\* second.
C11_FailTwiceThenSucceed ==
    \A t \in 1..Len(tasks) :
        Began(tasks[t], <<"call_fail", "call_fail", "call_ok">>) =>
            /\ tasks[t].calls = 3
            /\ tasks[t].content = <<t, 3>>
            /\ Len(Waits(tasks[t])) >= 2
            /\ Waits(tasks[t])[1] = Delay0
            /\ Waits(tasks[t])[2] = 2 * Delay0
            /\ \A r \in log : (r.task = t /\ r.route # FailedRoute) => r.output = <<t, 3>>

\* a run returned its result after two failed completion calls
C11_Witness ==
    \E t \in 1..Len(tasks) :
        /\ tasks[t].hist = <<"call_fail", "call_fail", "call_ok", "ins_ok">>
        /\ tasks[t].outcome = "returned"
        /\ tasks[t].kind = "transcript"
        /\ tasks[t].slept = <<InitialSleep, 10, 20>>

\* C12: a run whose completion call always fails makes exactly three calls,
\* does not sleep after the third, and raises the error of the third call.
C12_AlwaysFails ==
    \A t \in 1..Len(tasks) :
        (\A i \in 1..Len(tasks[t].hist) : tasks[t].hist[i] = "call_fail") =>
            /\ tasks[t].calls <= 3
            /\ (Ended(tasks[t]) /\ tasks[t].calls > 0) => tasks[t].calls = 3
            /\ tasks[t].calls = 3 =>
                /\ Ended(tasks[t])
                /\ tasks[t].err[1] \in {"error", "malformed", "timeout"}
                /\ tasks[t].err[2] = 3
                /\ Waits(tasks[t]) = <<Delay0, 2 * Delay0>>

\* an icebreaker run raised after three failed completion calls
C12_Witness ==
    \E t \in 1..Len(tasks) :
        /\ tasks[t].kind = "icebreaker"
        /\ tasks[t].hist = <<"call_fail", "call_fail", "call_fail">>
        /\ tasks[t].outcome = "raised"
        /\ tasks[t].err = <<"malformed", 3>>

\* The calls of log_interaction process_* has made in the run, and those that
\* returned
Inserts(T) == {i \in 1..Len(T.hist) : T.hist[i] \in {"ins_ok", "ins_fail"}}
InsertsOk(T) == {i \in 1..Len(T.hist) : T.hist[i] = "ins_ok"}
Completions(T) == {i \in 1..Len(T.hist) : T.hist[i] \in {"call_ok", "call_fail", "call_hung"}}

\* The main-route rows of task t in the Interaction Log
MainRows(t) == {r \in log : r.task = t /\ r.route # FailedRoute}

\* C13: within one run log_interaction is called at most three times.
C13_AtMostThreeInserts ==
    \A t \in 1..Len(tasks) : Cardinality(Inserts(tasks[t])) <= MaxLogAttempts

\* C14: within one run no completion call follows a call of log_interaction.
C14_NoCompletionAfterInsert ==
    \A t \in 1..Len(tasks) :
        \A i \in Inserts(tasks[t]), j \in Completions(tasks[t]) : j < i

\* C15 as stated: a run returns only after exactly one insert has succeeded, a
\* run that raised has had none succeed, a run none of whose inserts succeeded
\* raised, and a run that returned has exactly one row in the Interaction Log.
C15_ExactlyOneRow ==
    \A t \in 1..Len(tasks) :
        /\ tasks[t].outcome = "returned" =>
              Cardinality(InsertsOk(tasks[t])) = 1 /\ Cardinality(MainRows(t)) = 1
        /\ (Ended(tasks[t]) /\ tasks[t].outcome # "returned") => InsertsOk(tasks[t]) = {}
        /\ (Ended(tasks[t]) /\ InsertsOk(tasks[t]) = {}) => tasks[t].err # NoId

\* C15 with the rows of lost replies: a run returns only after exactly one
\* call of log_interaction has returned, which is its last call and has stored
\* the row of the completion the run returns; a run that raised has had none
\* return; a run none of whose inserts returned has raised; and the rows of a
\* run beyond one are those of inserts that raised after the row was stored.
C15_OneSuccessfulInsert ==
    \A t \in 1..Len(tasks) :
        /\ tasks[t].outcome = "returned" =>
              /\ InsertsOk(tasks[t]) = {Len(tasks[t].hist)}
              /\ \E r \in MainRows(t) :
                    r.n = tasks[t].inserts /\ r.output = tasks[t].content
        /\ (Ended(tasks[t]) /\ tasks[t].outcome # "returned") => InsertsOk(tasks[t]) = {}
        /\ (Ended(tasks[t]) /\ InsertsOk(tasks[t]) = {}) => tasks[t].err # NoId
        /\ Cardinality(MainRows(t)) <= Cardinality(Inserts(tasks[t]))
        /\ Cardinality(MainRows(t)) >= Cardinality(InsertsOk(tasks[t]))

\* a run raised the logging failure after every insert of every attempt failed
C15_Witness ==
    \E t \in 1..Len(tasks) :
        /\ tasks[t].pc = "done"
        /\ tasks[t].calls = 3
        /\ Cardinality(Inserts(tasks[t])) = 9
        /\ tasks[t].err = <<"logging", 9>>
        /\ MainRows(t) = {}

\* C18: while the completion call of a run is in flight, a callback can be
\* handled and every other run that is scheduled can start.
C18_CompletionNeverBlocks ==
    \A t \in 1..Len(tasks) :
        tasks[t].pc = "calling" =>
            /\ ENABLED OtherCallback
            /\ \A u \in 1..Len(tasks) : tasks[u].pc = "scheduled" => ENABLED TaskStart(u)

\* C19: no completion call stays in flight for ever: one that does not return
\* is ended and counted as a failed attempt.
C19_AttemptTimesOut ==
    \A t \in 1..Len(tasks) : tasks[t].pc # "hung"

\* The background tasks of transcript processing, and those that have not
\* finished
TranscriptTasks == {t \in 1..Len(tasks) : tasks[t].kind = "transcript"}
Unfinished == {t \in TranscriptTasks : tasks[t].pc # "done"}

\* C20 as stated: in every state _running_tasks is the set of the transcript
\* tasks that are scheduled and have not finished.
C20_RunningIsUnfinished == running = Unfinished

\* C20 with the done callback as the event loop runs it: every transcript task
\* is in _running_tasks from the step that schedules it until it has finished,
\* the set holds transcript tasks only, and a task leaves it only when it has
\* finished.
C20_RunningRetainsUnfinished ==
    [][/\ Unfinished \subseteq running
       /\ running \subseteq TranscriptTasks
       /\ (TranscriptTasks' \ TranscriptTasks) \subseteq running'
       /\ \A t \in running \ running' : tasks[t].pc = "done"]_vars

\* both transcript tasks have finished, those of a job run twice; the done
\* callback of the first has run, that of the second has not
C20_Witness ==
    /\ Len(tasks) = 2
    /\ tasks[1].wrapper = "tracking" /\ tasks[1].pc = "done"
    /\ tasks[2].wrapper = "tracking" /\ tasks[2].pc = "done"
    /\ running = {2}

C29_RedeliveryAccepted ==
    [][\A m \in 1..Len(queue) :
          (/\ queue[m].kind = "transcript"
           /\ \E t \in 1..Len(tasks) : tasks[t].msg = m
           /\ resp'.endpoint = "callback"
           /\ resp'.signer = QueueKey
           /\ resp'.verr = ""
           /\ resp'.body = JsonObject(queue[m].body)
           /\ (resp' # resp \/ Len(tasks') # Len(tasks))) =>
              /\ resp'.status = 200
              /\ resp'.state = "accepted"
              /\ Len(tasks') = Len(tasks) + 1
              /\ \E d \in 1..Len(queue) :
                    /\ queue[d].body = queue[m].body
                    /\ tasks'[Len(tasks')] =
                          NewTask("transcript", "tracking", JsonObject(queue[d].body),
                                  resp'.job_id, d)
              /\ running' = running \cup {Len(tasks')}]_vars

\* two runs of the same delivered job are in progress at the same time: both
\* have a completion call in flight, and both are in _running_tasks
C29_Witness ==
    /\ Len(tasks) = 2
    /\ tasks[1].msg = 1 /\ tasks[2].msg = 1
    /\ tasks[1].wrapper = "tracking" /\ tasks[2].wrapper = "tracking"
    /\ tasks[1].payload = tasks[2].payload
    /\ tasks[1].pc = "calling" /\ tasks[2].pc = "calling"
    /\ running = {1, 2}

(***************************************************************************)
(* Properties of the URL a signature is verified against                   *)
(***************************************************************************)
\* C32: the URL against which a callback signature is verified is
\* forwarded-proto://forwarded-host, with the forwarded port appended only when
\* it is neither 80 nor 443 and the host has no port, followed by the request
\* path and query, whenever a forwarded proto and a host header are present,
\* and the request's own URL otherwise; and a signature that is accepted has
\* been verified against that URL, never without one.
C32_VerifiedAgainstVisibleUrl ==
    resp.endpoint = "verify_qstash_request" =>
        LET p == resp.parts
            hostname == IF p.xf_host # <<>> THEN p.xf_host ELSE p.host
            port == IF p.xf_port \in {<<>>, <<"8", "0">>, <<"4", "4", "3">>}
                       \/ \E i \in 1..Len(hostname) : hostname[i] = ":"
                    THEN <<>> ELSE <<":">> \o p.xf_port
            tail == TranscriptCallbackPath
                        \o (IF p.query # <<>> THEN <<"?">> \o p.query ELSE <<>>)
            visible == IF p.xf_proto # <<>>
                       THEN p.xf_proto \o <<":", "/", "/">> \o hostname \o port \o tail
                       ELSE <<"h", "t", "t", "p", ":", "/", "/">> \o p.host \o tail
        IN  /\ resp.url = visible
            /\ resp.against.err = "" =>
                  /\ resp.against.val = visible
                  /\ resp.signed = visible
            /\ (resp.against.err # "skipped" /\ resp.verr = "") => resp.signed = visible

\* C33: the background wrappers never propagate an exception.  A transcript
\* task that has finished has finished normally, whatever process_transcript
\* raised and whatever the insert of the failure row raised; and a transcript
\* task whose process_transcript raised does finish and is then taken out of
\* _running_tasks.
C33_WrappersSwallow ==
    /\ [](\A t \in 1..Len(tasks) :
            (tasks[t].kind = "transcript" /\ tasks[t].pc = "done") =>
                /\ tasks[t].outcome \in {"returned", "swallowed"}
                /\ tasks[t].err # NoId <=> tasks[t].outcome = "swallowed")
    /\ \A t \in 1..MaxTasks :
          (t <= Len(tasks) /\ tasks[t].kind = "transcript" /\ tasks[t].err # NoId)
              ~> (/\ t <= Len(tasks)
                  /\ tasks[t].pc = "done"
                  /\ tasks[t].outcome = "swallowed"
                  /\ t \notin running)

\* the run under _process_with_error_tracking raised the error of its third
\* completion call, the insert of the failure row raised as well, and the task
\* has finished and is out of _running_tasks
C33_Witness ==
    /\ Len(tasks) = 1
    /\ tasks[1].wrapper = "tracking"
    /\ tasks[1].err = <<"error", 3>>
    /\ tasks[1].inserts = 1
    /\ log = {}
    /\ tasks[1].pc = "done"
    /\ tasks[1].outcome = "swallowed"
    /\ running = {}

\* C34: when a run scheduled by the transcript callback handler fails for
\* good, its wrapper makes exactly one insert attempt of a row with the route
\* /api/v1/analyze-transcript-failed, the job id and the status "failed", and
\* none when the run returns: the inserts of the task beyond those of
\* process_transcript are none until the run has raised and the attempt has
\* ended, and one from then on, and the rows of that route are at most the one.
C34_OneFailureRowAttempt ==
    \A t \in 1..Len(tasks) :
        LET T == tasks[t]
            attempts == T.inserts - Cardinality(Inserts(T))
            rows == {r \in log : r.task = t /\ r.route = FailedRoute}
        IN  T.wrapper = "tracking" =>
                /\ attempts = IF T.pc = "done" /\ T.err # NoId THEN 1 ELSE 0
                /\ T.outcome = "returned" => (attempts = 0 /\ rows = {})
                /\ T.err = NoId => rows = {}
                /\ Cardinality(rows) <= 1
                /\ \A r \in rows :
                      /\ r.job_id = T.job_id
                      /\ r.status = "failed"
                      /\ r.input = T.payload.val
                      /\ r.n = T.inserts

\* the run of a callback failed after three completion calls, and the one
\* insert of the failure row has stored it under the job id
C34_Witness ==
    \E t \in 1..Len(tasks) :
        /\ tasks[t].wrapper = "tracking"
        /\ tasks[t].pc = "done"
        /\ tasks[t].calls = 3
        /\ tasks[t].inserts = 1
        /\ \E r \in log :
              /\ r.task = t
              /\ r.route = FailedRoute
              /\ r.job_id = <<"alice">>
              /\ r.status = "failed"

\* C35: in one run the completion client is called at most 3 times, whatever
\* the completion calls and the inserts do: every call is counted in an
\* attempt, attempts are numbered 0..2, and a call is in flight or a backoff is
\* waited for only when fewer than 3 calls have been made.
C35_AtMostThreeCompletions ==
    \A t \in 1..Len(tasks) :
        LET T == tasks[t]
        IN  /\ T.calls <= MaxAttempts
            /\ Cardinality(Completions(T)) = T.calls
            /\ T.attempt <= MaxAttempts - 1
            /\ T.pc \in {"calling", "backoff"} => T.calls = T.attempt
            /\ T.pc \in {"inserting", "log_backoff"} => T.calls = T.attempt + 1

\* a run made its third completion call after a failed completion call and,
\* in the second attempt, three failed inserts
C35_Witness ==
    \E t \in 1..Len(tasks) :
        /\ tasks[t].calls = 3
        /\ Began(tasks[t], <<"call_fail", "call_ok", "ins_fail", "ins_fail", "ins_fail">>)
        /\ tasks[t].pc = "done"

\* C36: every run terminates when each of its completion calls and inserts
\* returns or fails: whatever the outcomes, from some point on the run has
\* ended, having returned its result or raised an error, and its task is not
\* in _running_tasks.
C36_RunTerminates ==
    <>[](\A t \in 1..Len(tasks) :
            /\ tasks[t].pc = "done"
            /\ tasks[t].outcome = "returned" \/ tasks[t].err # NoId
            /\ t \notin running)

\* the longest run has ended: three completion calls, each followed by three
\* failed inserts, then the insert of the failure row; and its task has left
\* _running_tasks
C36_Witness ==
    /\ Len(tasks) = 1
    /\ tasks[1].kind = "transcript"
    /\ tasks[1].calls = MaxAttempts
    /\ tasks[1].inserts = RunCalls - MaxAttempts
    /\ tasks[1].pc = "done"
    /\ running = {}

\* C37: scheme defaulting and local classification agree.  When BACKEND_URL
\* has no scheme and normalize_base_url gives it http://, the callback URL is
\* loopback or private and the job is dispatched in local mode: a submission
\* makes no publish call, and no message of the queue has a callback URL whose
\* http:// was defaulted.
C37_DefaultedHttpIsLocal ==
    LET b == env.BACKEND_URL
        defaulted ==
            /\ b # <<>>
            /\ ~StartsWith(b, HttpScheme) /\ ~StartsWith(b, HttpsScheme)
            /\ StartsWith(normalize_base_url(b).val, HttpScheme)
    IN  defaulted =>
            /\ resp.endpoint = "submit" =>
                  /\ \A path \in CallbackPaths :
                        is_loopback_or_private(CallbackUrls[b][path].val)
                  /\ resp.mode = "local"
                  /\ resp.publishes = 0
            /\ queue = <<>>

(***************************************************************************)
(* Properties of the two execution modes                                   *)
(***************************************************************************)
\* C21: local and remote execution are observably equivalent: when the run
\* scheduled in local mode (task 1) and the run scheduled by the queue's
\* callback (task 2), of the same kind and on the same payload, have finished
\* and their completion and persistence calls had the same outcomes, they have
\* made the same sequence of calls and have left the same rows (route, input
\* and output) in the Interaction Log.
C21_LocalRemoteEquivalent ==
    LET Rows(t) ==
            {[route |-> r.route, input |-> r.input, n |-> r.n,
              output |-> IF r.route = FailedRoute THEN r.output ELSE Tail(r.output)] :
                r \in {x \in log : x.task = t}}
    IN  (/\ Len(tasks) = 2
         /\ tasks[1].pc = "done" /\ tasks[2].pc = "done"
         /\ tasks[1].outs = tasks[2].outs) =>
            /\ tasks[1].hist = tasks[2].hist
            /\ Rows(1) = Rows(2)

(***************************************************************************)
(* Properties of the URL functions                                         *)
(***************************************************************************)
\* C23: normalize_base_url raises the configuration error for a missing or
\* blank value and for no other; and to a value without a scheme it prepends
\* http:// if and only if the value, trimmed and without its matching quotes,
\* starts with localhost, 127.0.0.1 or 0.0.0.0, and https:// otherwise.
C23_SchemeByHost ==
    resp.endpoint = "normalize_base_url" =>
        LET p == resp.parts
            blank == BaseUrlText(p) \in {<<>>, <<" ", " ">>}
            \* an opening quote without its match stays the start of the value
            start == (IF p.open # p.close THEN p.open ELSE <<>>) \o p.host.text
            local == p.host.local /\ (p.open = <<>> \/ p.open = p.close)
        IN  /\ blank <=> resp.out.err # ""
            /\ blank => resp.out.err = "HTTPException500"
            /\ (~blank /\ p.scheme = <<>>) =>
                  /\ StartsWith(resp.out.val, HttpScheme) <=> local
                  /\ StartsWith(resp.out.val,
                                (IF local THEN HttpScheme ELSE HttpsScheme) \o start)

\* the quoted value "0.0.0.0:80/" between blanks was given http://
C23_Witness ==
    /\ resp.endpoint = "normalize_base_url"
    /\ resp.parts.pad = <<" ">>
    /\ resp.parts.open = <<"\"">> /\ resp.parts.close = <<"\"">>
    /\ resp.parts.scheme = <<>>
    /\ resp.parts.host.text = AnyAddr4 \o <<":", "8", "0">>
    /\ resp.parts.trail = 1
    /\ resp.out = Ok(HttpScheme \o AnyAddr4 \o <<":", "8", "0">>)

\* C24: normalize_base_url is idempotent, and its result never ends with a
\* slash: for every value with a host text, quoted or not, with or without
\* trailing slashes, normalizing the result again returns the result, and the
\* result does not end with "/".
C24_NormalizeIdempotent ==
    (resp.endpoint = "normalize_base_url twice" /\ resp.parts.host.text # <<>>) =>
        /\ resp.again = resp.out
        /\ resp.out.val[Len(resp.out.val)] # "/"

\* C25: is_loopback_or_private returns true exactly when the URL has no host
\* (an empty one, or no "//" before it), when the host is localhost or
\* ip6-localhost, when it is an IP address that is loopback or private, and
\* when the URL cannot be parsed; it returns false for every public IP address
\* and for every host that is no IP address, whatever user, port and path the
\* URL carries.
C25_LoopbackOrPrivate ==
    resp.endpoint = "is_loopback_or_private" =>
        (resp.out <=>
            \/ resp.scheme = <<>>
            \/ resp.host.class \in {"empty", "localhost", "loopback", "private", "unparseable"})

\* a URL whose host has an unclosed bracket was taken to be local, with a
\* scheme that would otherwise make its host count
C25_Witness ==
    /\ resp.endpoint = "is_loopback_or_private"
    /\ resp.scheme = HttpsScheme
    /\ resp.host.class = "unparseable"
    /\ resp.out

\* C26 as stated: build_callback_url raises the configuration error when
\* BACKEND_URL is not set, and else returns the normalized base URL followed by
\* the path with exactly one leading slash.
C26_ExactlyOneSlash ==
    resp.endpoint = "build_callback_url" =>
        /\ BaseUrlText(resp.parts) = <<>> => resp.out.err = "HTTPException500"
        /\ resp.out.err = resp.base.err
        /\ resp.base.err = "" => resp.out.val = resp.base.val \o <<"/">> \o resp.name

\* C26 for paths as they are given: build_callback_url raises the configuration
\* error when BACKEND_URL is not set, and else returns the normalized base URL
\* followed by the path, with one slash put before a path that starts with
\* none; a path that starts with slashes is appended as it is.
C26_SlashInsertedWhenMissing ==
    resp.endpoint = "build_callback_url" =>
        /\ BaseUrlText(resp.parts) = <<>> => resp.out.err = "HTTPException500"
        /\ resp.out.err = resp.base.err
        /\ resp.base.err = "" =>
              resp.out.val = resp.base.val
                                \o Slashes(IF resp.lead = 0 THEN 1 ELSE resp.lead) \o resp.name

\* the path cb was joined to the base https://api.ex.com
C26_Witness ==
    /\ resp.endpoint = "build_callback_url"
    /\ resp.parts.scheme = HttpsScheme /\ resp.parts.host.text = PublicHost
    /\ resp.lead = 0 /\ resp.name = <<"c", "b">>
    /\ resp.out = Ok(HttpsScheme \o PublicHost \o <<"/", "c", "b">>)

(***************************************************************************)
(* Properties of the list and delete endpoints                             *)
(***************************************************************************)
\* C28: outside job execution a failing persistence call never fails the
\* caller: when persistence is configured and the call ends with an error
\* status, a timeout or a network error, a list endpoint answers 200 with an
\* empty item list and a delete endpoint answers 200 with a deleted count of
\* zero; when persistence is not configured the endpoints answer 503.
C28_PersistenceFailureNotSurfaced ==
    resp.endpoint \in {"list", "delete"} =>
        /\ ~SupabaseConfigured(env) => resp.status = 503
        /\ (SupabaseConfigured(env) /\ resp.out # "ok") =>
              /\ resp.status = 200
              /\ resp.items = {}
              /\ resp.deleted = 0

\* C38: listing icebreakers with type=all returns, for every limit and offset,
\* the rows at positions [offset, offset + limit) of the plain-route and
\* pdf-route rows together, newest first: as many items as that page has, the
\* i-th of them the row with exactly offset + i - 1 newer rows before it.
C38_AllIsGlobalPage ==
    resp.endpoint = "list_icebreakers" =>
        LET all == {r \in log : r.route \in {IcebreakerRoute, PdfRoute}}
            left == Cardinality(all) - resp.offset
            size == IF left < 0 THEN 0 ELSE IF left < resp.limit THEN left ELSE resp.limit
        IN  /\ Len(resp.items) = size
            /\ \A i \in 1..Len(resp.items) :
                  /\ resp.items[i] \in all
                  /\ Cardinality({x \in all : x.created_at > resp.items[i].created_at})
                        = resp.offset + i - 1

(***************************************************************************)
(* Properties of the Job Store                                             *)
(***************************************************************************)
\* C16: the status of a job never moves backwards along queued -> processing
\* -> completed or failed, and no write changes the status of an entry that is
\* completed or failed.
C16_StatusMonotonic ==
    \A e \in store :
        \A i \in 1..(Len(e[2]) - 1) :
            \/ e[2][i + 1] = e[2][i]
            \/ e[2][i] = "queued" /\ e[2][i + 1] \in {"processing", "completed", "failed"}
            \/ e[2][i] = "processing" /\ e[2][i + 1] \in {"completed", "failed"}

============================================================================
